---- MODULE Spec2Model ----
(***************************************************************************)
(* Model of the defora web control server (docker/web): the control        *)
(* validator mapControl, the WebSocket control handler, the RabbitMQ relay *)
(* set-up loop setupQueue and the broadcast hub.                           *)
(*                                                                         *)
(* JavaScript values are tagged records:                                   *)
(*   [t |-> "number", n |-> k]   the finite number k/100                   *)
(*   [t |-> "NaN"], [t |-> "Infinity", n |-> 1 or -1]                      *)
(*   [t |-> "string", s |-> <<chars>>]   a string as a sequence of chars   *)
(*   [t |-> "boolean", b |-> TRUE/FALSE], [t |-> "null"],                  *)
(*   [t |-> "undefined"]                                                   *)
(*   [t |-> "object", f |-> function from property names to values]        *)
(*   [t |-> "array", a |-> <<values>>]                                     *)
(***************************************************************************)
EXTENDS Integers, Sequences, FiniteSets, TLC

VARIABLES
    controlToken,   \* start(): the configured shared secret ("" = none)
    enableMq,       \* start(): relay transport enabled
    amqpConn,       \* start(): let amqpConn ("null" or "conn")
    channel,        \* start(): let channel ("null" or "channel")
    sq,             \* position of the setupQueue() coroutine
    retryDelay,     \* delay of the pending setTimeout(setupQueue, ...) (0 = none)
    brokerUp,       \* environment: the broker accepts connections
    outages,        \* environment: number of broker outages so far
    connOpen,       \* environment: the connection amqpConn holds is alive
    openConns,      \* environment: the relay connections open at the broker
    lastPlaylistMtime, \* start(): let lastPlaylistMtime
    polls,          \* the poll callbacks in flight: what fsp.stat has found for each
    playlist,       \* environment: the mtime of the playlist (0 = no playlist)
    streamed,       \* history: the `updated` values broadcast, in order
    peakCache,      \* start(): const peakCache = new Map()
    beatCache,      \* start(): const beatCache = new Map()
    audioFiles,     \* environment: the bytes of the audio files, by path
    channelOpen,    \* environment: the channel that channel holds is alive
    queueDeclared,  \* environment: the queue exists at the broker
    readyState,     \* readyState of every observer socket
    clients,        \* wss.clients
    trace,          \* history: TRUE when the run records accepted and relayQueue
    accepted,       \* history: envelopes built by the handler (passed all gates)
    relayQueue,     \* environment: envelopes stored in the broker queue, in order
    out,            \* outputs of the last step (send calls, publish, log)
    mapIn,          \* validator harness: the input of mapControl
    mapOut,         \* validator harness: the result of mapControl
    pollTimer,      \* start(): the setInterval of the playlist poll is active
    pollPc,         \* position of the poll callback ("idle" or "stat")
    frameWatcher,   \* start(): let frameWatcher ("watching", "closed", "undefined")
    closePc,        \* position of the close() coroutine
    closeCalls,     \* history: the release calls close() has made
    bridgePc,       \* mediator bridge: "disconnected", "handshake" or "ready"
    flagsEnabled,   \* mediator: the flags enabled on the current connection
    pending,        \* mediator bridge: writes queued while not ready
    lastWrite,      \* mediator: the last write applied downstream
    reconnects,     \* environment: number of mediator connection losses so far
    macrosRack,     \* control surface: the beat macros
    lfos,           \* control surface: the LFO modulators
    beat,           \* control surface: the beat clock and one beat macro
    req,            \* HTTP API: the request being handled (NoCall = none)
    res,            \* HTTP API: the responses written to the request, in order
    httpPc,         \* HTTP API: position of the handler of req
    upstream,       \* HTTP API: the call to the image generator (timer, 2 s mark, abort)
    framesDir,      \* the file system at framesDir, as the next readdir finds it
    presetsDir,     \* the files of presetsDir: file name -> content
    presetLog       \* history: the body last saved under each requested name

vars == <<controlToken, enableMq, amqpConn, channel, sq, retryDelay, brokerUp,
          outages, connOpen, channelOpen, queueDeclared, readyState, clients,
          trace, accepted, relayQueue, out, mapIn, mapOut, pollTimer, pollPc,
          frameWatcher, closePc, closeCalls, bridgePc, flagsEnabled, pending,
          lastWrite, reconnects, macrosRack, lfos, beat, req, res, httpPc,
          upstream, framesDir, presetsDir, presetLog, openConns,
          lastPlaylistMtime, polls, playlist, streamed, peakCache, beatCache,
          audioFiles>>

relayVars == <<amqpConn, channel, sq, retryDelay, brokerUp, outages, connOpen, openConns,
               channelOpen, queueDeclared>>
wsVars == <<readyState, clients>>
histVars == <<trace, accepted, relayQueue>>
mapVars == <<mapIn, mapOut>>
cfgVars == <<controlToken, enableMq>>
pollVars == <<lastPlaylistMtime, polls, playlist, streamed>>
cacheVars == <<peakCache, beatCache, audioFiles>>
closeVars == <<pollTimer, pollPc, frameWatcher, closePc, closeCalls>>
bridgeVars == <<bridgePc, flagsEnabled, pending, lastWrite, reconnects>>
uiVars == <<macrosRack, lfos>>
\* the processes at both ends of the server: the control surface and the bridge
peerVars == <<bridgeVars, uiVars, beat>>
fsVars == <<framesDir, presetsDir, presetLog>>
apiVars == <<req, res, httpPc, upstream, fsVars>>

-----------------------------------------------------------------------------
(* JavaScript values *)

Num(k) == [t |-> "number", n |-> k]
NaN == [t |-> "NaN"]
Infinity(sign) == [t |-> "Infinity", n |-> sign]
Str(chars) == [t |-> "string", s |-> chars]
Bool(b) == [t |-> "boolean", b |-> b]
Null == [t |-> "null"]
Undefined == [t |-> "undefined"]
Obj(f) == [t |-> "object", f |-> f]
Arr(a) == [t |-> "array", a |-> a]
EmptyObj == Obj(<<>>)

Digits == <<"0", "1", "2", "3", "4", "5", "6", "7", "8", "9">>
IsDigit(c) == \E i \in 1..Len(Digits) : Digits[i] = c
DigitVal(c) == (CHOOSE i \in 1..Len(Digits) : Digits[i] = c) - 1
AllDigits(s) == \A i \in 1..Len(s) : IsDigit(s[i])
IsSpace(c) == c = " "

RECURSIVE TrimLeft(_)
TrimLeft(s) == IF s # <<>> /\ IsSpace(Head(s)) THEN TrimLeft(Tail(s)) ELSE s
RECURSIVE TrimRight(_)
TrimRight(s) ==
    IF s # <<>> /\ IsSpace(s[Len(s)]) THEN TrimRight(SubSeq(s, 1, Len(s) - 1)) ELSE s
Trim(s) == TrimRight(TrimLeft(s))

RECURSIVE DigitsToInt(_)
DigitsToInt(s) ==
    IF s = <<>> THEN 0
    ELSE 10 * DigitsToInt(SubSeq(s, 1, Len(s) - 1)) + DigitVal(s[Len(s)])

\* the fraction digits of a decimal literal, in hundredths
FracToHundredths(s) ==
    IF s = <<>> THEN 0
    ELSE IF Len(s) = 1 THEN 10 * DigitVal(s[1])
    ELSE 10 * DigitVal(s[1]) + DigitVal(s[2])

DotAt(s) == IF \E i \in 1..Len(s) : s[i] = "."
            THEN CHOOSE i \in 1..Len(s) : s[i] = "." /\ \A j \in 1..(i - 1) : s[j] # "."
            ELSE 0

\* an unsigned StrDecimalLiteral without exponent: digits, digits.digits, .digits, digits.
UnsignedToNumber(s) ==
    LET d == DotAt(s)
        ip == IF d = 0 THEN s ELSE SubSeq(s, 1, d - 1)
        fp == IF d = 0 THEN <<>> ELSE SubSeq(s, d + 1, Len(s))
    IN  IF AllDigits(ip) /\ AllDigits(fp) /\ Len(ip) + Len(fp) > 0
        THEN Num(100 * DigitsToInt(ip) + FracToHundredths(fp))
        ELSE NaN

InfinityChars == <<"I", "n", "f", "i", "n", "i", "t", "y">>

\* Number(string): StringToNumber of ECMAScript on the alphabet of the model
\* (no exponent, no radix prefix)
StringToNumber(s) ==
    LET tr == Trim(s)
        signed == tr # <<>> /\ Head(tr) \in {"+", "-"}
        sign == IF tr # <<>> /\ Head(tr) = "-" THEN -1 ELSE 1
        body == IF signed THEN Tail(tr) ELSE tr
        u == UnsignedToNumber(body)
    IN  IF tr = <<>> THEN Num(0)
        ELSE IF body = InfinityChars THEN Infinity(sign)
        ELSE IF u.t = "number" THEN Num(sign * u.n)
        ELSE NaN

RECURSIVE IntToChars(_)
IntToChars(k) ==
    IF k < 10 THEN <<Digits[k + 1]>>
    ELSE IntToChars(k \div 10) \o <<Digits[(k % 10) + 1]>>

\* String(number) for a finite number held in hundredths
NumberToString(k) ==
    LET m == IF k < 0 THEN -k ELSE k
        ip == IntToChars(m \div 100)
        f == m % 100
        fp == IF f = 0 THEN <<>>
              ELSE IF f % 10 = 0 THEN <<".", Digits[(f \div 10) + 1]>>
              ELSE <<".", Digits[(f \div 10) + 1], Digits[(f % 10) + 1]>>
    IN  (IF k < 0 THEN <<"-">> ELSE <<>>) \o ip \o fp

ObjectObjectChars ==
    <<"[", "o", "b", "j", "e", "c", "t", " ", "O", "b", "j", "e", "c", "t", "]">>

\* String(v)
RECURSIVE JSString(_)
RECURSIVE JoinComma(_)
JoinComma(a) ==
    IF a = <<>> THEN <<>>
    ELSE LET e == IF Head(a).t \in {"null", "undefined"} THEN <<>> ELSE JSString(Head(a))
         IN  IF Len(a) = 1 THEN e ELSE e \o <<",">> \o JoinComma(Tail(a))
JSString(v) ==
    CASE v.t = "string" -> v.s
      [] v.t = "number" -> NumberToString(v.n)
      [] v.t = "NaN" -> <<"N", "a", "N">>
      [] v.t = "Infinity" -> (IF v.n < 0 THEN <<"-">> ELSE <<>>) \o InfinityChars
      [] v.t = "boolean" -> IF v.b THEN <<"t", "r", "u", "e">> ELSE <<"f", "a", "l", "s", "e">>
      [] v.t = "null" -> <<"n", "u", "l", "l">>
      [] v.t = "undefined" -> <<"u", "n", "d", "e", "f", "i", "n", "e", "d">>
      [] v.t = "object" -> ObjectObjectChars
      [] v.t = "array" -> JoinComma(v.a)

\* Number(v)
JSNumber(v) ==
    CASE v.t \in {"number", "NaN", "Infinity"} -> v
      [] v.t = "string" -> StringToNumber(v.s)
      [] v.t = "boolean" -> IF v.b THEN Num(100) ELSE Num(0)
      [] v.t = "null" -> Num(0)
      [] v.t = "undefined" -> NaN
      [] v.t \in {"object", "array"} -> StringToNumber(JSString(v))

\* Number.isFinite(v)
IsFinite(v) == v.t = "number"

\* typeof v
TypeOf(v) ==
    CASE v.t \in {"number", "NaN", "Infinity"} -> "number"
      [] v.t \in {"object", "array", "null"} -> "object"
      [] OTHER -> v.t

\* ToBoolean(v)
Truthy(v) ==
    CASE v.t = "number" -> v.n # 0
      [] v.t = "string" -> v.s # <<>>
      [] v.t = "boolean" -> v.b
      [] v.t \in {"NaN", "null", "undefined"} -> FALSE
      [] OTHER -> TRUE

UpperChars == <<"A", "B", "C", "D", "E", "F", "G", "H", "I", "J", "K", "L", "M",
                "N", "O", "P", "Q", "R", "S", "T", "U", "V", "W", "X", "Y", "Z">>
LowerChars == <<"a", "b", "c", "d", "e", "f", "g", "h", "i", "j", "k", "l", "m",
                "n", "o", "p", "q", "r", "s", "t", "u", "v", "w", "x", "y", "z">>
\* String.prototype.toLowerCase on a sequence of chars
ToLowerCase(s) ==
    [i \in 1..Len(s) |->
        IF \E j \in 1..Len(UpperChars) : UpperChars[j] = s[i]
        THEN LowerChars[CHOOSE j \in 1..Len(UpperChars) : UpperChars[j] = s[i]]
        ELSE s[i]]

\* the own enumerable properties of v, as Object.entries(v) lists them
\* (arrays and strings list their indices; model arrays hold under 10 elements)
Entries(v) ==
    CASE v.t = "object" -> v.f
      [] v.t = "array" ->
            [k \in {Digits[i] : i \in 1..Len(v.a)} |->
                v.a[CHOOSE i \in 1..Len(v.a) : Digits[i] = k]]
      [] v.t = "string" ->
            [k \in {Digits[i] : i \in 1..Len(v.s)} |->
                Str(<<v.s[CHOOSE i \in 1..Len(v.s) : Digits[i] = k]>>)]
      [] OTHER -> <<>>

\* v[key] for a named (non-index) property; reading a property of null or
\* undefined throws a TypeError, which callers test with Throws
Throws(v) == v.t \in {"null", "undefined"}
Get(v, key) ==
    IF v.t = "object" /\ key \in DOMAIN v.f THEN v.f[key] ELSE Undefined

\* v || {}
OrEmpty(v) == IF Truthy(v) THEN v ELSE EmptyObj

-----------------------------------------------------------------------------
(* controlMapping.js *)

PARAM_FLAGS ==
    [k \in {"strength", "cfg", "cadence", "noise_multiplier", "translation_x",
            "translation_y", "translation_z", "rotation_x", "rotation_y",
            "rotation_z", "fov"} |->
        CASE k = "strength" -> "should_use_deforumation_strength"
          [] k = "cfg" -> "should_use_deforumation_cfg"
          [] k = "cadence" -> "should_use_deforumation_cadence"
          [] k = "noise_multiplier" -> "should_use_deforumation_noise"
          [] k \in {"translation_x", "translation_y"} -> "should_use_deforumation_panning"
          [] k = "translation_z" -> "should_use_deforumation_zoom"
          [] k \in {"rotation_x", "rotation_y"} -> "should_use_deforumation_rotation"
          [] k = "rotation_z" -> "should_use_deforumation_tilt"
          [] k = "fov" -> "should_use_deforumation_fov"]

PROMPT_FIELDS ==
    {"positive_prompt", "negative_prompt", "positive_prompt_1", "positive_prompt_2",
     "negative_prompt_1", "prompt_mix", "should_use_deforumation_prompts",
     "should_use_before_deforum_prompt", "should_use_after_deforum_prompt",
     "should_use_deforumation_prompt_scheduling"}

\* the string literals of mapControl, as sequences of chars
LiveParamChars == <<"l", "i", "v", "e", "P", "a", "r", "a", "m">>
PromptsChars == <<"p", "r", "o", "m", "p", "t", "s">>
TransportChars == <<"t", "r", "a", "n", "s", "p", "o", "r", "t">>
MotionPresetChars == <<"m", "o", "t", "i", "o", "n", "P", "r", "e", "s", "e", "t">>
ParamSourceChars == <<"p", "a", "r", "a", "m", "S", "o", "u", "r", "c", "e">>
MotionStyleChars == <<"m", "o", "t", "i", "o", "n", "S", "t", "y", "l", "e">>
ControlnetChars == <<"c", "o", "n", "t", "r", "o", "l", "n", "e", "t">>
UnknownChars == <<"u", "n", "k", "n", "o", "w", "n">>

LIVE_ALLOWED == DOMAIN PARAM_FLAGS \cup {"steps", "seed", "start_frame", "should_resume"}

\* the (min, max) ranges the control surface gives its sliders, in hundredths
ParamRange ==
    [k \in {"cfg", "strength", "zoom"} |->
        CASE k = "cfg" -> <<0, 150>>
          [] k = "strength" -> <<0, 150>>
          [] k = "zoom" -> <<-500, 500>>]

\* mutant: the finiteness test of toNumber is missing
toNumber_Unchecked(val) == JSNumber(val)

toNumber(val) ==
    LET num == JSNumber(val)
    IN  IF IsFinite(num) THEN num ELSE Null

\* mutant: the allow-list test of the liveParam loop is missing
liveParamClean_Unfiltered(payload) ==
    LET e == Entries(OrEmpty(payload))
        keep == {k \in DOMAIN e : toNumber(e[k]) # Null}
    IN  [k \in keep |-> toNumber(e[k])]

\* the liveParam loop: clean = allow-listed keys whose value converts
liveParamClean(payload) ==
    LET e == Entries(OrEmpty(payload))
        keep == {k \in DOMAIN e : k \in LIVE_ALLOWED /\ toNumber(e[k]) # Null}
    IN  [k \in keep |-> toNumber(e[k])]

Result(controlType, payload, valid, detail) ==
    [threw |-> FALSE, controlType |-> controlType, payload |-> payload,
     valid |-> valid, detail |-> detail]
Threw == [threw |-> TRUE]

RECURSIVE MapSlots(_)
MapSlots(a) ==
    IF a = <<>> THEN <<>>
    ELSE <<Obj([k \in {"t", "mix"} |-> JSNumber(Get(Head(a), k))])>> \o MapSlots(Tail(a))
\* mutant: the filter tests the time offset only
RECURSIVE FilterSlots_TimeOnly(_)
FilterSlots_TimeOnly(a) ==
    IF a = <<>> THEN <<>>
    ELSE (IF IsFinite(Head(a).f["t"]) THEN <<Head(a)>> ELSE <<>>)
         \o FilterSlots_TimeOnly(Tail(a))

RECURSIVE FilterSlots(_)
FilterSlots(a) ==
    IF a = <<>> THEN <<>>
    ELSE (IF IsFinite(Head(a).f["t"]) /\ IsFinite(Head(a).f["mix"])
          THEN <<Head(a)>> ELSE <<>>) \o FilterSlots(Tail(a))

mapPrompts(controlType, payload) ==
    LET e == Entries(OrEmpty(payload))
        keep == {k \in DOMAIN e : k \in PROMPT_FIELDS
                                  /\ TypeOf(e[k]) \in {"boolean", "number", "string"}}
        sched == Get(payload, "prompt_schedule")
        isArr == sched.t = "array"
        keys == keep \cup (IF isArr THEN {"prompt_schedule"} ELSE {})
        clean == [k \in keys |->
                    IF isArr /\ k = "prompt_schedule"
                    THEN Arr(FilterSlots(MapSlots(sched.a)))
                    ELSE e[k]]
    IN  IF Throws(payload) \/ (isArr /\ \E i \in 1..Len(sched.a) : Throws(sched.a[i]))
        THEN Threw
        ELSE Result(controlType, Obj(clean), keys # {}, Str(PromptsChars))

mapTransport(controlType, payload) ==
    LET action == Get(payload, "action")
        sf == Get(payload, "start_frame")
        hasAction == Truthy(action)
        hasStart == ~(sf.t \in {"null", "undefined"}) /\ toNumber(sf) # Null
        keys == (IF hasAction THEN {"action"} ELSE {})
                \cup (IF hasStart THEN {"start_frame"} ELSE {})
        clean == [k \in keys |->
                    IF k = "action" THEN Str(ToLowerCase(JSString(action)))
                    ELSE toNumber(sf)]
    IN  IF Throws(payload) THEN Threw
        ELSE Result(controlType, Obj(clean), keys # {}, Str(TransportChars))

\* mutant: the fall-through forwards what it does not know
mapUnknown_PassThrough(controlType, payload) ==
    Result(controlType, OrEmpty(payload), TRUE, controlType)

\* the final return of mapControl
mapUnknown(controlType, payload) == Result(controlType, EmptyObj, FALSE, Str(UnknownChars))

\* mapControl(controlType, payload = {}); controlType is a JavaScript value
mapControl(controlType, rawPayload) ==
    LET payload == IF rawPayload.t = "undefined" THEN EmptyObj ELSE rawPayload
        is(name) == controlType = Str(name)
    IN  IF is(LiveParamChars)
        THEN LET clean == liveParamClean(payload)
             IN  Result(controlType, Obj(clean), DOMAIN clean # {}, Str(LiveParamChars))
        ELSE IF is(PromptsChars)
        THEN mapPrompts(controlType, payload)
        ELSE IF is(TransportChars)
        THEN mapTransport(controlType, payload)
        ELSE IF is(MotionPresetChars)
                \/ is(ParamSourceChars)
                \/ is(MotionStyleChars)
        THEN Result(controlType, OrEmpty(payload), TRUE, controlType)
        ELSE mapUnknown(controlType, payload)

-----------------------------------------------------------------------------
(* Inputs of the validator harness *)

MaxStrLen == 3

Alphabet == {"7", ".", "b", " ", "-"}

RECURSIVE StringsUpTo(_)
StringsUpTo(n) ==
    IF n = 0 THEN {<<>>}
    ELSE LET shorter == StringsUpTo(n - 1)
         IN  shorter \cup {Append(s, c) : s \in {x \in shorter : Len(x) = n - 1},
                                          c \in Alphabet}

SampleStrings ==
    {Str(s) : s \in StringsUpTo(MaxStrLen)}
    \cup {Str(InfinityChars), Str(<<"-">> \o InfinityChars), Str(<<"P", "L", "A", "Y">>)}

SampleNumbers == {Num(-1000), Num(0), Num(100), Num(750), NaN, Infinity(1), Infinity(-1)}

SampleOthers ==
    {Bool(TRUE), Bool(FALSE), Null, Undefined, EmptyObj, Arr(<<>>), Arr(<<Num(500)>>),
     Arr(<<Str(<<"7", ".", "5">>)>>), Arr(<<Num(100), Num(200)>>), Arr(<<Null>>)}

SampleValues == SampleStrings \cup SampleNumbers \cup SampleOthers

SmallValues ==
    {Num(100), Str(<<"7", ".", "5">>), Str(<<"b", "a", "d">>), Null, Num(-1000)}

\* every object whose keys are some of `keys` and whose values are in `values`
ObjectsOver(keys, values) ==
    UNION {{Obj(f) : f \in [ks -> values]} : ks \in SUBSET keys}

SampleSchedules ==
    {Arr(<<>>),
     Arr(<<Obj([k \in {"t", "mix"} |-> IF k = "t" THEN Num(100) ELSE Num(20)])>>),
     Arr(<<Obj([k \in {"t", "mix"} |-> IF k = "t" THEN Str(<<"b">>) ELSE Num(20)]),
           Obj([k \in {"t", "mix"} |-> IF k = "t" THEN Str(<<"7">>) ELSE Num(50)])>>),
     Arr(<<Obj([k \in {"t"} |-> Num(100)])>>),
     Arr(<<Num(500)>>),
     Arr(<<Null>>)}

SamplePayloads ==
    ObjectsOver({"cfg"}, SampleValues)
    \cup ObjectsOver({"junk"}, SampleValues)
    \cup ObjectsOver({"cfg", "noise_multiplier", "rotation_z", "junk"}, SmallValues)
    \cup ObjectsOver({"positive_prompt", "prompt_mix"}, SmallValues \cup {EmptyObj})
    \cup ObjectsOver({"prompt_schedule"}, SampleSchedules)
    \cup ObjectsOver({"action", "start_frame"},
                     SmallValues \cup {Str(<<"P", "L", "A", "Y">>), Str(<<>>)})
    \cup {Obj([k \in {"name", "intensity"} |->
                 IF k = "name" THEN Str(<<"O", "r", "b", "i", "t">>) ELSE Num(120)]),
          Obj([k \in {"slot"} |-> Str(<<"C", "N", "1">>)])}
    \cup {Null, Undefined, Arr(<<>>), Arr(<<Num(100)>>), Str(<<"7">>), Num(100), Bool(TRUE)}

KnownControlTypes ==
    {Str(LiveParamChars), Str(PromptsChars), Str(TransportChars),
     Str(MotionPresetChars), Str(ParamSourceChars), Str(MotionStyleChars)}

SampleControlTypes ==
    KnownControlTypes
    \cup {Str(ControlnetChars), Str(UnknownChars), Str(ToLowerCase(LiveParamChars)),
          Str(<<>>), Str(LiveParamChars \o <<" ">>), Undefined, Null, Num(100),
          Bool(TRUE), EmptyObj}

NoCall == [called |-> FALSE]
MapInputs == {[controlType |-> c, payload |-> p] : c \in SampleControlTypes,
                                                    p \in SamplePayloads}

-----------------------------------------------------------------------------
(* motionPresets.js, controlnetMapping.js *)

OrbitChars == <<"O", "r", "b", "i", "t">>
MotionPresetNames ==
    {<<"S", "t", "a", "t", "i", "c">>, OrbitChars, <<"T", "u", "n", "n", "e", "l">>,
     <<"H", "a", "n", "d", "h", "e", "l", "d">>, <<"C", "h", "a", "o", "s">>}

\* MOTION_PRESETS[name], values in hundredths
MOTION_PRESETS(name) ==
    CASE name = <<"S", "t", "a", "t", "i", "c">> ->
            [k \in {"translation_x", "translation_y", "translation_z", "rotation_y",
                    "rotation_z", "fov"} |-> IF k = "fov" THEN 7000 ELSE 0]
      [] name = OrbitChars ->
            [k \in {"translation_z", "rotation_y", "rotation_z", "fov"} |->
                CASE k = "translation_z" -> -50 [] k = "rotation_y" -> 500
                  [] k = "rotation_z" -> 0 [] k = "fov" -> 7000]
      [] name = <<"T", "u", "n", "n", "e", "l">> ->
            [k \in {"translation_z", "rotation_y", "rotation_z", "fov"} |->
                CASE k = "translation_z" -> 80 [] k = "rotation_y" -> 0
                  [] k = "rotation_z" -> 0 [] k = "fov" -> 9000]
      [] name = <<"H", "a", "n", "d", "h", "e", "l", "d">> ->
            [k \in {"translation_x", "translation_y", "rotation_y", "rotation_z"} |->
                CASE k = "translation_x" -> 10 [] k = "translation_y" -> 5
                  [] k = "rotation_y" -> 120 [] k = "rotation_z" -> 80]
      [] name = <<"C", "h", "a", "o", "s">> ->
            [k \in {"translation_x", "translation_y", "rotation_y", "rotation_z",
                    "translation_z"} |->
                CASE k = "translation_x" -> 40 [] k = "translation_y" -> -30
                  [] k = "rotation_y" -> 800 [] k = "rotation_z" -> 600
                  [] k = "translation_z" -> 50]

\* v * intensity for a finite preset value v (hundredths) and any intensity
JSMul(v, intensity) ==
    LET i == JSNumber(intensity)
    IN  CASE i.t = "NaN" -> NaN
          [] i.t = "Infinity" ->
                IF v = 0 THEN NaN ELSE Infinity(IF (v < 0) = (i.n < 0) THEN 1 ELSE -1)
          [] OTHER ->
                LET p == v * i.n
                IN  Num(IF p < 0 THEN -((-p) \div 100) ELSE p \div 100)

\* motionPresetPayload(name, intensity)
motionPresetPayload(name, intensity) ==
    LET key == JSString(name)
    IN  IF key \in MotionPresetNames
        THEN Obj([k \in DOMAIN MOTION_PRESETS(key) |->
                    JSMul(MOTION_PRESETS(key)[k], intensity)])
        ELSE EmptyObj

ControlnetSlots ==
    {<<"C", "N", "1">>, <<"C", "N", "2">>, <<"C", "N", "3">>, <<"C", "N", "4">>,
     <<"C", "N", "5">>}

\* controlnetPayload(slot, overrides): {slot: key, ...base, ...overrides}
controlnetPayload(slot, overrides) ==
    LET key == IF Truthy(slot) THEN slot ELSE Str(<<"C", "N", "1">>)
        base == IF JSString(key) \in ControlnetSlots
                THEN [k \in {"weight", "enabled", "bypass"} |->
                        CASE k = "weight" -> Num(40) [] k = "enabled" -> Num(100)
                          [] k = "bypass" -> Num(0)]
                ELSE <<>>
        over == Entries(overrides)
    IN  Obj([k \in {"slot"} \cup DOMAIN base \cup DOMAIN over |->
                IF k \in DOMAIN over THEN over[k]
                ELSE IF k = "slot" THEN key ELSE base[k]])

-----------------------------------------------------------------------------
(* server.js: messages of the WebSocket protocol *)

Clients == {"c1", "c2"}

ControlChars == <<"c", "o", "n", "t", "r", "o", "l">>
SecretToken == Str(<<"s", "3">>)

ErrorMsg(text) == [type |-> "error", msg |-> text]
\* mutant: the greeting is sent as an event
HelloMsg_Event == [type |-> "event", msg |-> "Connected to defora web control"]

HelloMsg == [type |-> "hello", msg |-> "Connected to defora web control"]

EventMsg(detail, envelope) == [type |-> "event", msg |-> detail, payload |-> envelope]
FrameMsg(file) == [type |-> "frame", file |-> file]
StreamMsg == [type |-> "stream"]

Envelope(controlType, payload) == [controlType |-> controlType, payload |-> payload]

\* what JSON.parse(raw) yields: a JSON value, or a SyntaxError
BadJson == [t |-> "badjson"]

ControlMessage(token, controlType, payload) ==
    LET fields == [type |-> Str(ControlChars), token |-> token,
                   controlType |-> controlType, payload |-> payload]
        present == {k \in DOMAIN fields : fields[k] # Undefined}
    IN  Obj([k \in present |-> fields[k]])

One(key, value) == Obj([k \in {key} |-> value])

\* the bodies the observers send in the model: <<controlType, payload>>
BodyCfgString ==
    <<Str(LiveParamChars),
      Obj([k \in {"cfg", "noise_multiplier", "junk"} |->
             CASE k = "cfg" -> Str(<<"7", ".", "5">>)
               [] k = "noise_multiplier" -> Str(<<"b", "a", "d">>)
               [] k = "junk" -> Num(100)])>>
BodyCfg == <<Str(LiveParamChars), One("cfg", Num(500))>>
BodyStrength == <<Str(LiveParamChars), One("strength", Num(50))>>
BodyJunk == <<Str(LiveParamChars), One("junk", Num(100))>>
BodyUnknown == <<Str(UnknownChars), One("cfg", Num(100))>>
BodyPromptsNull == <<Str(PromptsChars), Null>>
BodyOrbit ==
    <<Str(MotionPresetChars),
      Obj([k \in {"name", "intensity"} |->
             IF k = "name" THEN Str(OrbitChars) ELSE Num(120)])>>
BodyControlnet == <<Str(ControlnetChars), One("slot", Str(<<"C", "N", "1">>))>>
BodyNoType == <<Undefined, EmptyObj>>
BodyStringPayload == <<Str(LiveParamChars), Str(<<"7">>)>>

SampleBodies ==
    {BodyCfgString, BodyCfg, BodyJunk, BodyUnknown, BodyPromptsNull, BodyOrbit,
     BodyControlnet, BodyNoType, BodyStringPayload}

\* the bodies sent with a wrong token or with none
UnauthorizedBodies == {BodyCfg, BodyUnknown, BodyStringPayload}

WrongTokens == {Str(<<"w">>), Undefined}

SampleMessages ==
    {ControlMessage(SecretToken, b[1], b[2]) : b \in SampleBodies}
    \cup {ControlMessage(tk, b[1], b[2]) : tk \in WrongTokens, b \in UnauthorizedBodies}
    \cup {BadJson, Null, One("type", Str(<<"p", "i", "n", "g">>))}

\* the messages of the runs that record their history: deltas that pass every gate
OrderMessages ==
    {ControlMessage(Undefined, b[1], b[2]) : b \in {BodyCfgString, BodyCfg, BodyStrength}}

-----------------------------------------------------------------------------
(* server.js: ws.on("message") *)

\* mutant: a message that carries no token at all passes the gate
unauthorized_OnlyIfPresent(m) ==
    Truthy(controlToken) /\ Get(m, "token") # Undefined /\ Get(m, "token") # controlToken

\* controlToken && payload.token !== controlToken
unauthorized(m) == Truthy(controlToken) /\ Get(m, "token") # controlToken

\* !payload.controlType || typeof payload.payload !== "object"
invalidSchema(m) ==
    ~Truthy(Get(m, "controlType")) \/ TypeOf(Get(m, "payload")) # "object"

\* mutant: the handler does not test mapped.valid
rejectInvalid_Never(mapped) == FALSE

\* if (!mapped.valid)
rejectInvalid(mapped) == ~mapped.valid

\* mutant: the schema is tested before the token
handlerGate_SchemaFirst(m) ==
    IF m = BadJson \/ Throws(m) THEN "throw"
    ELSE IF Get(m, "type") # Str(ControlChars) THEN "ignore"
    ELSE IF invalidSchema(m) THEN "schema"
    ELSE IF unauthorized(m) THEN "unauthorized"
    ELSE LET mapped == mapControl(Get(m, "controlType"), Get(m, "payload"))
         IN  IF mapped.threw THEN "throw"
             ELSE IF rejectInvalid(mapped) THEN "invalid"
             ELSE "forward"

\* where the handler leaves its try block
handlerGate(m) ==
    IF m = BadJson \/ Throws(m) THEN "throw"
    ELSE IF Get(m, "type") # Str(ControlChars) THEN "ignore"
    ELSE IF unauthorized(m) THEN "unauthorized"
    ELSE IF invalidSchema(m) THEN "schema"
    ELSE LET mapped == mapControl(Get(m, "controlType"), Get(m, "payload"))
         IN  IF mapped.threw THEN "throw"
             ELSE IF rejectInvalid(mapped) THEN "invalid"
             ELSE "forward"

\* const msg = {controlType, payload}, rewritten for motionPreset and controlnet
envelopeOf(mapped) ==
    LET name == Get(mapped.payload, "name")
        intensity == Get(mapped.payload, "intensity")
        slot == Get(mapped.payload, "slot")
        preset == motionPresetPayload(name, IF Truthy(intensity) THEN intensity
                                            ELSE Num(100))
    IN  IF mapped.controlType = Str(MotionPresetChars) /\ Truthy(mapped.payload)
           /\ Truthy(name)
        THEN IF DOMAIN preset.f # {}
             THEN Envelope(Str(LiveParamChars), preset)
             ELSE Envelope(mapped.controlType, mapped.payload)
        ELSE IF mapped.controlType = Str(ControlnetChars) /\ Truthy(mapped.payload)
                /\ Truthy(slot)
        THEN Envelope(Str(ControlnetChars), controlnetPayload(slot, mapped.payload))
        ELSE Envelope(mapped.controlType, mapped.payload)

\* mapped.detail || "control forwarded"
eventDetail(mapped) ==
    IF Truthy(mapped.detail) THEN mapped.detail
    ELSE Str(<<"c", "o", "n", "t", "r", "o", "l", " ", "f", "o", "r", "w", "a", "r",
               "d", "e", "d">>)

NoSends == [x \in Clients |-> <<>>]
SendTo(c, msg) == [x \in Clients |-> IF x = c THEN <<msg>> ELSE <<>>]

\* mutant: broadcast sends to every client of the server
broadcastTargets_All == clients

\* the clients broadcast sends to: client.readyState === WebSocket.OPEN
broadcastTargets == {x \in clients : readyState[x] = "OPEN"}

\* broadcast(obj): the send calls it makes
broadcast(obj) == [x \in Clients |-> IF x \in broadcastTargets THEN <<obj>> ELSE <<>>]

\* what channel.sendToQueue can do with the envelope: the handler skips it without
\* a channel; the broker stores it in a declared queue and drops what it cannot
\* route; on a channel whose connection is gone the call throws or is lost
sendToQueueOutcomes ==
    IF channel = "null" THEN {"skipped"}
    ELSE IF channelOpen
    THEN (IF queueDeclared THEN {"stored"} ELSE {"unroutable"})
    ELSE {"threw", "lost"}

\* mutant: the catch block reports the failure to the sender
handlerCatch_Reports(c) == SendTo(c, ErrorMsg("relay unavailable"))

\* catch (err) { console.error("[ws] bad ws message", err); }: the sends it makes
handlerCatch(c) == NoSends

errorFor(gate) ==
    CASE gate = "unauthorized" -> <<ErrorMsg("unauthorized")>>
      [] gate = "schema" -> <<ErrorMsg("invalid schema")>>
      [] gate = "invalid" -> <<ErrorMsg("invalid controlType or payload")>>
      [] OTHER -> <<>>

-----------------------------------------------------------------------------
(* State machine *)

MaxMsgs == 2
MaxOutages == 2
RetryDelayMs == 2000

NoOut == [op |-> "none"]

MaxMtime == 3
MaxPolls == 2

\* no poll callback is in flight, no playlist has been written
NoPoll == "none"
InitPoll ==
    /\ lastPlaylistMtime = 0
    /\ polls = [p \in 1..MaxPolls |-> [st |-> NoPoll]]
    /\ playlist = 0
    /\ streamed = <<>>

\* the caches are empty maps, no audio file has been written
InitCaches == peakCache = <<>> /\ beatCache = <<>> /\ audioFiles = <<>>

InitServer ==
    /\ controlToken \in {Str(<<>>), SecretToken}
    /\ enableMq \in BOOLEAN
    /\ amqpConn = "null"
    /\ channel = "null"
    /\ sq = IF enableMq THEN "connecting" ELSE "off"
    /\ retryDelay = 0
    /\ brokerUp \in BOOLEAN
    /\ outages = 0
    /\ connOpen = FALSE
    /\ openConns = 0
    /\ InitPoll
    /\ InitCaches
    /\ channelOpen = FALSE
    /\ queueDeclared = FALSE
    /\ readyState = [c \in Clients |-> "CLOSED"]
    /\ clients = {}
    /\ accepted = <<>>
    /\ relayQueue = <<>>
    /\ out = NoOut
    /\ pollTimer = TRUE
    /\ pollPc = "idle"
    /\ frameWatcher \in {"watching", "undefined"}
    /\ closePc = "idle"
    /\ closeCalls = {}

\* fs.watch(framesDir, ...) returned a watcher
Watching == frameWatcher = "watching"

NoWrite == [key |-> "none"]

\* the bridge before its first connection
InitBridge ==
    /\ bridgePc = "disconnected"
    /\ flagsEnabled = {}
    /\ pending = <<>>
    /\ lastWrite = NoWrite
    /\ reconnects = 0

\* the control surface with empty racks
InitUi == macrosRack = <<>> /\ lfos = <<>>

\* the beat clock at rest
NoBeat == [running |-> FALSE]

\* the directories of the server are there and empty
NoFrames == [err |-> "none", entries |-> <<>>]
InitFs == framesDir = NoFrames /\ presetsDir = <<>> /\ presetLog = <<>>

\* no request is being handled
NoUpstream ==
    [timer |-> FALSE, elapsed |-> FALSE, aborted |-> FALSE, status |-> 0, data |-> Undefined]
InitApi ==
    req = NoCall /\ res = <<>> /\ httpPc = "idle" /\ upstream = NoUpstream /\ InitFs

InitPeers == InitBridge /\ InitUi /\ beat = NoBeat

Init ==
    /\ InitServer /\ InitApi /\ InitPeers /\ Watching
    /\ trace = FALSE /\ mapIn = NoCall /\ mapOut = NoCall

(* setupQueue *)

\* mutant: the catch block logs and gives up
setupQueueCatch_NoRetry == sq' = "failed" /\ retryDelay' = 0

\* catch (err) { console.error(...); setTimeout(setupQueue, 2000); }
setupQueueCatch == sq' = "waiting" /\ retryDelay' = RetryDelayMs

\* amqpConn = await amqp.connect(rabbitUrl) resolves: amqpConn holds a new
\* connection; channel, if set, still holds the channel of an earlier one
ConnectResolve ==
    /\ sq = "connecting" /\ brokerUp
    /\ amqpConn' = "conn"
    /\ connOpen' = TRUE
    /\ openConns' = openConns + 1
    /\ sq' = "creating"
    /\ out' = NoOut
    /\ UNCHANGED <<channel, retryDelay, brokerUp, outages, channelOpen, queueDeclared>>
    /\ UNCHANGED <<cfgVars, cacheVars, pollVars, apiVars, peerVars, closeVars, wsVars, histVars, mapVars>>

\* amqp.connect rejects
ConnectReject ==
    /\ sq = "connecting" /\ ~brokerUp
    /\ setupQueueCatch
    /\ out' = NoOut
    /\ UNCHANGED <<amqpConn, channel, brokerUp, outages, connOpen, openConns, channelOpen,
                   queueDeclared>>
    /\ UNCHANGED <<cfgVars, cacheVars, pollVars, apiVars, peerVars, closeVars, wsVars, histVars, mapVars>>

\* channel = await amqpConn.createChannel() resolves
CreateChannelResolve ==
    /\ sq = "creating" /\ connOpen
    /\ channel' = "channel"
    /\ channelOpen' = TRUE
    /\ sq' = "asserting"
    /\ out' = NoOut
    /\ UNCHANGED <<amqpConn, retryDelay, brokerUp, outages, connOpen, openConns, queueDeclared>>
    /\ UNCHANGED <<cfgVars, cacheVars, pollVars, apiVars, peerVars, closeVars, wsVars, histVars, mapVars>>

\* createChannel rejects: the connection was lost
CreateChannelReject ==
    /\ sq = "creating" /\ ~connOpen
    /\ setupQueueCatch
    /\ out' = NoOut
    /\ UNCHANGED <<amqpConn, channel, brokerUp, outages, connOpen, openConns, channelOpen,
                   queueDeclared>>
    /\ UNCHANGED <<cfgVars, cacheVars, pollVars, apiVars, peerVars, closeVars, wsVars, histVars, mapVars>>

\* await channel.assertQueue(queue, {durable: false}) resolves
AssertQueueResolve ==
    /\ sq = "asserting" /\ channelOpen
    /\ queueDeclared' = TRUE
    /\ sq' = "connected"
    /\ out' = NoOut
    /\ UNCHANGED <<amqpConn, channel, retryDelay, brokerUp, outages, connOpen, openConns,
                   channelOpen>>
    /\ UNCHANGED <<cfgVars, cacheVars, pollVars, apiVars, peerVars, closeVars, wsVars, histVars, mapVars>>

\* assertQueue rejects: the connection was lost
AssertQueueReject ==
    /\ sq = "asserting" /\ ~channelOpen
    /\ setupQueueCatch
    /\ out' = NoOut
    /\ UNCHANGED <<amqpConn, channel, brokerUp, outages, connOpen, openConns, channelOpen,
                   queueDeclared>>
    /\ UNCHANGED <<cfgVars, cacheVars, pollVars, apiVars, peerVars, closeVars, wsVars, histVars, mapVars>>

\* the timer of setTimeout(setupQueue, 2000) fires: setupQueue runs to its first await
RetryTimer ==
    /\ sq = "waiting"
    /\ sq' = "connecting"
    /\ retryDelay' = 0
    /\ out' = NoOut
    /\ UNCHANGED <<amqpConn, channel, brokerUp, outages, connOpen, openConns, channelOpen,
                   queueDeclared>>
    /\ UNCHANGED <<cfgVars, cacheVars, pollVars, apiVars, peerVars, closeVars, wsVars, histVars, mapVars>>

(* the broker, as the environment *)

\* the broker goes down: its connections are lost, and so is the non-durable queue
BrokerDown ==
    /\ brokerUp /\ outages < MaxOutages
    /\ brokerUp' = FALSE
    /\ outages' = outages + 1
    /\ connOpen' = FALSE
    /\ openConns' = 0
    /\ channelOpen' = FALSE
    /\ queueDeclared' = FALSE
    /\ out' = NoOut
    /\ UNCHANGED <<amqpConn, channel, sq, retryDelay>>
    /\ UNCHANGED <<cfgVars, cacheVars, pollVars, apiVars, peerVars, closeVars, wsVars, histVars, mapVars>>

BrokerBack ==
    /\ ~brokerUp
    /\ brokerUp' = TRUE
    /\ out' = NoOut
    /\ UNCHANGED <<amqpConn, channel, sq, retryDelay, outages, connOpen, openConns, channelOpen,
                   queueDeclared>>
    /\ UNCHANGED <<cfgVars, cacheVars, pollVars, apiVars, peerVars, closeVars, wsVars, histVars, mapVars>>

\* the connection is lost while the broker stays up
ConnectionLost ==
    /\ connOpen /\ outages < MaxOutages
    /\ connOpen' = FALSE
    /\ openConns' = openConns - 1
    /\ channelOpen' = FALSE
    /\ outages' = outages + 1
    /\ out' = NoOut
    /\ UNCHANGED <<amqpConn, channel, sq, retryDelay, brokerUp, queueDeclared>>
    /\ UNCHANGED <<cfgVars, cacheVars, pollVars, apiVars, peerVars, closeVars, wsVars, histVars, mapVars>>

SetupStep ==
    \/ ConnectResolve \/ ConnectReject
    \/ CreateChannelResolve \/ CreateChannelReject
    \/ AssertQueueResolve \/ AssertQueueReject
    \/ RetryTimer

NextRelay == SetupStep \/ BrokerDown \/ BrokerBack \/ ConnectionLost

(* the WebSocket server *)

\* wss.on("connection"): the new socket joins wss.clients and is sent hello
Connection(c) ==
    /\ c \notin clients
    /\ "wss" \notin closeCalls
    /\ clients' = clients \cup {c}
    /\ readyState' = [readyState EXCEPT ![c] = "OPEN"]
    /\ out' = [op |-> "connection", sender |-> c, sends |-> SendTo(c, HelloMsg)]
    /\ UNCHANGED <<cfgVars, cacheVars, pollVars, apiVars, peerVars, closeVars, relayVars, histVars, mapVars>>

\* the closing handshake of a socket starts
ClientClosing(c) ==
    /\ c \in clients /\ readyState[c] = "OPEN"
    /\ readyState' = [readyState EXCEPT ![c] = "CLOSING"]
    /\ out' = NoOut
    /\ UNCHANGED <<clients, cfgVars, cacheVars, pollVars, apiVars, peerVars, closeVars, relayVars, histVars, mapVars>>

\* a socket is closed: it leaves wss.clients
ClientClosed(c) ==
    /\ c \in clients
    /\ readyState' = [readyState EXCEPT ![c] = "CLOSED"]
    /\ clients' = clients \ {c}
    /\ out' = NoOut
    /\ UNCHANGED <<cfgVars, cacheVars, pollVars, apiVars, peerVars, closeVars, relayVars, histVars, mapVars>>

\* ws.on("message") for the raw message whose JSON.parse yields m
WsMessage(c, m) ==
    /\ c \in clients
    /\ trace => Len(accepted) < MaxMsgs
    /\ \E gate \in {handlerGate(m)} :
           IF gate = "forward"
           THEN \E mapped \in {mapControl(Get(m, "controlType"), Get(m, "payload"))},
                   pub \in sendToQueueOutcomes :
                  /\ accepted' = IF trace THEN Append(accepted, envelopeOf(mapped))
                                 ELSE accepted
                  /\ relayQueue' = IF trace /\ pub = "stored"
                                   THEN Append(relayQueue, envelopeOf(mapped))
                                   ELSE relayQueue
                  /\ UNCHANGED trace
                  /\ out' = [op |-> "message", sender |-> c, msg |-> m,
                             publish |-> pub,
                             sends |-> IF pub = "threw" THEN handlerCatch(c)
                                       ELSE broadcast(EventMsg(eventDetail(mapped),
                                                               envelopeOf(mapped))),
                             logged |-> pub = "threw"]
           ELSE /\ out' = [op |-> "message", sender |-> c, msg |-> m,
                           publish |-> "none",
                           sends |-> IF gate = "throw" THEN handlerCatch(c)
                                     ELSE IF errorFor(gate) = <<>> THEN NoSends
                                     ELSE SendTo(c, errorFor(gate)[1]),
                           logged |-> gate = "throw"]
                /\ UNCHANGED histVars
    /\ UNCHANGED <<cfgVars, cacheVars, pollVars, apiVars, peerVars, closeVars, relayVars, wsVars, mapVars>>

FramePrefix == <<"f", "r", "a", "m", "e", "_">>
SampleFiles == {Str(FramePrefix \o <<"1">>), Str(<<"t", "m", "p">>), Null}

\* filename.startsWith("frame_")
StartsWithFrame(name) ==
    Len(name) >= Len(FramePrefix) /\ SubSeq(name, 1, Len(FramePrefix)) = FramePrefix

\* the fs.watch callback on the frames directory
FrameWatch(filename) ==
    /\ frameWatcher = "watching"
    /\ out' = [op |-> "frame", file |-> filename,
               sends |-> IF Truthy(filename) /\ StartsWithFrame(filename.s)
                         THEN broadcast(FrameMsg(<<"/", "f", "r", "a", "m", "e", "s", "/">>
                                                 \o filename.s))
                         ELSE NoSends]
    /\ UNCHANGED <<cfgVars, cacheVars, pollVars, apiVars, peerVars, closeVars, relayVars, wsVars, histVars, mapVars>>

(* the playlist poll *)

\* the setInterval callback starts: await fsp.stat(playlistPath)
PollTick ==
    /\ pollTimer /\ pollPc = "idle"
    /\ pollPc' = "stat"
    /\ out' = NoOut
    /\ UNCHANGED <<pollTimer, frameWatcher, closePc, closeCalls>>
    /\ UNCHANGED <<cfgVars, cacheVars, pollVars, apiVars, peerVars, relayVars, wsVars, histVars, mapVars>>

\* fsp.stat settles: a newer mtime is broadcast, an error is swallowed or logged
PollSettle(newer) ==
    /\ pollPc = "stat"
    /\ pollPc' = "idle"
    /\ out' = [op |-> "poll", newer |-> newer,
               sends |-> IF newer THEN broadcast(StreamMsg) ELSE NoSends]
    /\ UNCHANGED <<pollTimer, frameWatcher, closePc, closeCalls>>
    /\ UNCHANGED <<cfgVars, cacheVars, pollVars, apiVars, peerVars, relayVars, wsVars, histVars, mapVars>>

(* close() *)

\* the release calls of close(), in the order of the code
ReleaseSteps == <<"pollTimer", "frameWatcher", "clients", "wss", "server", "channel",
                  "amqpConn">>

\* close() after await new Promise((resolve) => server.close(resolve)):
\* if (channel) ... if (amqpConn) ...
closeAfterServer ==
    IF channel # "null" THEN "channel"
    ELSE IF amqpConn # "null" THEN "amqpConn"
    ELSE "done"

\* close() is called and runs to its first await: clearInterval(pollTimer),
\* frameWatcher.close(), c.close() on every client inside try/catch, wss.close(resolve).
\* A release call may throw: fwThrows, wssThrows; thrown are the clients whose
\* close() throws.
CloseCall(fwThrows, thrown, wssThrows) ==
    /\ closePc = "idle"
    /\ thrown \subseteq clients
    /\ pollTimer' = FALSE
    /\ UNCHANGED pollPc
    /\ out' = [op |-> "close"]
    /\ IF frameWatcher = "watching" /\ fwThrows
       THEN /\ closePc' = "rejected"
            /\ closeCalls' = {"pollTimer", "frameWatcher"}
            /\ UNCHANGED <<frameWatcher, wsVars>>
       ELSE /\ frameWatcher' = IF frameWatcher = "watching" THEN "closed" ELSE frameWatcher
            /\ readyState' = [c \in Clients |->
                                IF c \in clients \ thrown /\ readyState[c] = "OPEN"
                                THEN "CLOSING" ELSE readyState[c]]
            /\ UNCHANGED clients
            /\ closePc' = IF wssThrows THEN "rejected" ELSE "wss"
            /\ closeCalls' = {"pollTimer", "clients", "wss"}
                             \cup (IF frameWatcher = "watching" THEN {"frameWatcher"}
                                   ELSE {})
    /\ UNCHANGED <<cfgVars, cacheVars, pollVars, apiVars, peerVars, relayVars, histVars, mapVars>>

\* wss.close calls back: if (server) await new Promise((resolve) => server.close(resolve))
CloseWssDone(serverThrows) ==
    /\ closePc = "wss"
    /\ closePc' = IF serverThrows THEN "rejected" ELSE "server"
    /\ closeCalls' = closeCalls \cup {"server"}
    /\ out' = [op |-> "close"]
    /\ UNCHANGED <<pollTimer, pollPc, frameWatcher>>
    /\ UNCHANGED <<cfgVars, cacheVars, pollVars, apiVars, peerVars, relayVars, wsVars, histVars, mapVars>>

\* server.close calls back: if (channel) { try { await channel.close() } catch (_) {} }
CloseServerDone ==
    /\ closePc = "server"
    /\ closePc' = closeAfterServer
    /\ closeCalls' = closeCalls \cup ({closeAfterServer} \ {"done"})
    /\ out' = [op |-> "close"]
    /\ UNCHANGED <<pollTimer, pollPc, frameWatcher>>
    /\ UNCHANGED <<cfgVars, cacheVars, pollVars, apiVars, peerVars, relayVars, wsVars, histVars, mapVars>>

\* channel.close() settles (a rejection is caught):
\* if (amqpConn) { try { await amqpConn.close() } catch (_) {} }
CloseChannelDone ==
    /\ closePc = "channel"
    /\ channelOpen' = FALSE
    /\ closePc' = IF amqpConn # "null" THEN "amqpConn" ELSE "done"
    /\ closeCalls' = closeCalls \cup (IF amqpConn # "null" THEN {"amqpConn"} ELSE {})
    /\ out' = [op |-> "close"]
    /\ UNCHANGED <<amqpConn, channel, sq, retryDelay, brokerUp, outages, connOpen, openConns,
                   queueDeclared>>
    /\ UNCHANGED <<pollTimer, pollPc, frameWatcher>>
    /\ UNCHANGED <<cfgVars, cacheVars, pollVars, apiVars, peerVars, wsVars, histVars, mapVars>>

\* amqpConn.close() settles (a rejection is caught): close() returns
CloseConnDone ==
    /\ closePc = "amqpConn"
    /\ connOpen' = FALSE
    /\ openConns' = IF connOpen THEN openConns - 1 ELSE openConns
    /\ channelOpen' = FALSE
    /\ closePc' = "done"
    /\ out' = [op |-> "close"]
    /\ UNCHANGED <<amqpConn, channel, sq, retryDelay, brokerUp, outages, queueDeclared>>
    /\ UNCHANGED <<pollTimer, pollPc, frameWatcher, closeCalls>>
    /\ UNCHANGED <<cfgVars, cacheVars, pollVars, apiVars, peerVars, wsVars, histVars, mapVars>>

CloseStep ==
    \/ \E fwThrows \in BOOLEAN, thrown \in SUBSET Clients, wssThrows \in BOOLEAN :
          CloseCall(fwThrows, thrown, wssThrows)
    \/ \E serverThrows \in BOOLEAN : CloseWssDone(serverThrows)
    \/ CloseServerDone \/ CloseChannelDone \/ CloseConnDone

NextWs ==
    \/ \E c \in Clients : Connection(c) \/ ClientClosing(c) \/ ClientClosed(c)
    \/ \E c \in Clients, m \in SampleMessages : WsMessage(c, m)
    \/ \E f \in SampleFiles : FrameWatch(f)

Next == NextRelay \/ NextWs

Spec == Init /\ [][Next]_vars

\* the relay set-up loop on its own, with the scheduling of the event loop: a
\* settled promise runs its continuation, a due timer fires
InitRelay == Init /\ enableMq
SpecRelay == InitRelay /\ [][NextRelay]_vars /\ WF_vars(SetupStep)

\* the handler and the relay with the history of accepted and stored envelopes,
\* for observers that stay connected and send deltas that pass every gate
InitOrder ==
    /\ InitServer /\ InitApi /\ InitPeers /\ Watching /\ enableMq /\ controlToken = Str(<<>>)
    /\ trace = TRUE /\ mapIn = NoCall /\ mapOut = NoCall

NextOrder ==
    \/ NextRelay
    \/ \E c \in Clients : Connection(c)
    \/ \E c \in Clients, m \in OrderMessages : WsMessage(c, m)

SpecOrder == InitOrder /\ [][NextOrder]_vars

\* the server with its timers and its shutdown: observers connect and leave, frames
\* and playlist changes are broadcast, close() may be called at any moment
InitClose ==
    /\ InitServer /\ InitApi /\ InitPeers /\ enableMq /\ controlToken = Str(<<>>)
    /\ trace = FALSE /\ mapIn = NoCall /\ mapOut = NoCall

NextClose ==
    \/ NextRelay
    \/ \E c \in Clients : Connection(c) \/ ClientClosing(c) \/ ClientClosed(c)
    \/ FrameWatch(Str(FramePrefix \o <<"1">>))
    \/ PollTick
    \/ \E newer \in BOOLEAN : PollSettle(newer)
    \/ CloseStep

SpecClose == InitClose /\ [][NextClose]_vars

(* The mediator bridge (defora_cli.control_bridge), after its specification: one
   connection to the mediator, a retry loop on loss, a bounded queue for the writes
   attempted while it is not ready, and the enable-flags sequence on every connect *)

MaxReconnects == 2
MaxPending == 2

\* the flags of the registry, in the order of the table: the enable-flags sequence
EnableFlagSequence ==
    <<PARAM_FLAGS["strength"], PARAM_FLAGS["cfg"], PARAM_FLAGS["cadence"],
      PARAM_FLAGS["noise_multiplier"], PARAM_FLAGS["translation_x"],
      PARAM_FLAGS["translation_z"], PARAM_FLAGS["rotation_x"],
      PARAM_FLAGS["rotation_z"], PARAM_FLAGS["fov"]>>

\* the keys written in the model: two with a flag dependency, one without
BridgeKeys == {"cfg", "fov", "seed"}

\* a write as the engine applies it: the key and the flags enabled at that moment
AppliedWrite(key) == [key |-> key, flags |-> flagsEnabled]

\* mutant: the bridge writes as soon as the connection is up
bridgeReady_Connected == bridgePc # "disconnected"

\* the bridge applies writes downstream: connected and the handshake is complete
bridgeReady == bridgePc = "ready"

\* the connection to the mediator is established: nothing is enabled on it yet
BridgeConnect ==
    /\ bridgePc = "disconnected"
    /\ bridgePc' = "handshake"
    /\ flagsEnabled' = {}
    /\ out' = [op |-> "bridge", result |-> "connected"]
    /\ UNCHANGED <<pending, lastWrite, reconnects>>
    /\ UNCHANGED <<cfgVars, cacheVars, pollVars, apiVars, closeVars, uiVars, beat, relayVars, wsVars, histVars, mapVars>>

\* the handshake pushes the next flag of the sequence; after the last the bridge is ready
BridgeEnableFlag ==
    /\ bridgePc = "handshake"
    /\ LET i == Cardinality(flagsEnabled) + 1
       IN  /\ flagsEnabled' = flagsEnabled \cup {EnableFlagSequence[i]}
           /\ bridgePc' = IF i = Len(EnableFlagSequence) THEN "ready" ELSE "handshake"
    /\ out' = [op |-> "bridge", result |-> "flag"]
    /\ UNCHANGED <<pending, lastWrite, reconnects>>
    /\ UNCHANGED <<cfgVars, cacheVars, pollVars, apiVars, closeVars, uiVars, beat, relayVars, wsVars, histVars, mapVars>>

\* write(key, value): applied when the bridge is ready and nothing is queued before
\* it, queued while there is room, and otherwise a definite failure
BridgeWrite(key) ==
    /\ IF bridgeReady /\ pending = <<>>
       THEN /\ lastWrite' = AppliedWrite(key)
            /\ out' = [op |-> "bridge", result |-> "applied"]
            /\ UNCHANGED pending
       ELSE IF Len(pending) < MaxPending
       THEN /\ pending' = Append(pending, key)
            /\ out' = [op |-> "bridge", result |-> "queued"]
            /\ UNCHANGED lastWrite
       ELSE /\ out' = [op |-> "bridge", result |-> "failed"]
            /\ UNCHANGED <<pending, lastWrite>>
    /\ UNCHANGED <<bridgePc, flagsEnabled, reconnects>>
    /\ UNCHANGED <<cfgVars, cacheVars, pollVars, apiVars, closeVars, uiVars, beat, relayVars, wsVars, histVars, mapVars>>

\* the oldest queued write is applied
BridgeDrain ==
    /\ bridgeReady /\ pending # <<>>
    /\ lastWrite' = AppliedWrite(Head(pending))
    /\ pending' = Tail(pending)
    /\ out' = [op |-> "bridge", result |-> "applied"]
    /\ UNCHANGED <<bridgePc, flagsEnabled, reconnects>>
    /\ UNCHANGED <<cfgVars, cacheVars, pollVars, apiVars, closeVars, uiVars, beat, relayVars, wsVars, histVars, mapVars>>

\* the connection to the mediator is lost: the bridge enters its retry loop
BridgeDisconnect ==
    /\ bridgePc # "disconnected" /\ reconnects < MaxReconnects
    /\ bridgePc' = "disconnected"
    /\ flagsEnabled' = {}
    /\ reconnects' = reconnects + 1
    /\ out' = [op |-> "bridge", result |-> "disconnected"]
    /\ UNCHANGED <<pending, lastWrite>>
    /\ UNCHANGED <<cfgVars, cacheVars, pollVars, apiVars, closeVars, uiVars, beat, relayVars, wsVars, histVars, mapVars>>

InitBridgeOnly ==
    /\ InitServer /\ InitApi /\ InitPeers /\ Watching
    /\ enableMq = FALSE /\ controlToken = Str(<<>>) /\ brokerUp
    /\ trace = FALSE /\ mapIn = NoCall /\ mapOut = NoCall

NextBridge ==
    \/ BridgeConnect \/ BridgeEnableFlag \/ BridgeDrain \/ BridgeDisconnect
    \/ \E key \in BridgeKeys : BridgeWrite(key)

SpecBridge == InitBridgeOnly /\ [][NextBridge]_vars

(* The control surface (public/index.html), after its tests and its documentation:
   the rack of beat macros and the rack of LFO modulators *)

MacroCap == 6
LfoCap == 8

\* the entries addMacro and addLfo append
DefaultMacro == [target |-> "cfg"]
DefaultLfo == [shape |-> "Sine", on |-> TRUE]

\* the rack of the six-slot test before its two calls of addMacro
TestRack == <<[target |-> "a"], [target |-> "b"], [target |-> "c"], [target |-> "d"],
              [target |-> "e"]>>

\* s without its i-th element
RemoveAt(s, i) == SubSeq(s, 1, i - 1) \o SubSeq(s, i + 1, Len(s))

\* mutant: the cap test of addMacro is off by one
macroRoom_OffByOne == Len(macrosRack) <= MacroCap

\* addMacro adds while fewer than six macros exist
macroRoom == Len(macrosRack) < MacroCap

\* addLfo adds while fewer than eight LFOs exist
lfoRoom == Len(lfos) < LfoCap

addMacro ==
    /\ macrosRack' = IF macroRoom THEN Append(macrosRack, DefaultMacro) ELSE macrosRack
    /\ out' = [op |-> "addMacro", added |-> macroRoom]
    /\ UNCHANGED lfos
    /\ UNCHANGED <<cfgVars, cacheVars, pollVars, apiVars, closeVars, bridgeVars, beat, relayVars, wsVars, histVars, mapVars>>

removeMacro(i) ==
    /\ i \in 1..Len(macrosRack)
    /\ macrosRack' = RemoveAt(macrosRack, i)
    /\ out' = [op |-> "removeMacro"]
    /\ UNCHANGED lfos
    /\ UNCHANGED <<cfgVars, cacheVars, pollVars, apiVars, closeVars, bridgeVars, beat, relayVars, wsVars, histVars, mapVars>>

addLfo ==
    /\ lfos' = IF lfoRoom THEN Append(lfos, DefaultLfo) ELSE lfos
    /\ out' = [op |-> "addLfo", added |-> lfoRoom]
    /\ UNCHANGED macrosRack
    /\ UNCHANGED <<cfgVars, cacheVars, pollVars, apiVars, closeVars, bridgeVars, beat, relayVars, wsVars, histVars, mapVars>>

removeLfo(i) ==
    /\ i \in 1..Len(lfos)
    /\ lfos' = RemoveAt(lfos, i)
    /\ out' = [op |-> "removeLfo"]
    /\ UNCHANGED macrosRack
    /\ UNCHANGED <<cfgVars, cacheVars, pollVars, apiVars, closeVars, bridgeVars, beat, relayVars, wsVars, histVars, mapVars>>

InitRacks ==
    /\ InitServer /\ InitApi /\ InitBridge /\ Watching /\ beat = NoBeat
    /\ enableMq = FALSE /\ controlToken = Str(<<>>) /\ brokerUp
    /\ trace = FALSE /\ mapIn = NoCall /\ mapOut = NoCall
    /\ macrosRack \in {<<>>, TestRack}
    /\ lfos = <<>>

NextRacks ==
    \/ addMacro \/ addLfo
    \/ \E i \in 1..MacroCap : removeMacro(i)
    \/ \E i \in 1..LfoCap : removeLfo(i)

SpecRacks == InitRacks /\ [][NextRacks]_vars

(* The beat clock of the control surface and one beat macro, after the
   specification of the Beat Macro and the implementation notes of the AUDIO tab *)

MaxElapsedMs == 2000
TickMs == 50

\* the jitter of the beat timer in the model: a tick comes on time or up to two late
TickDelays == {TickMs, 2 * TickMs, 3 * TickMs}

BpmValues == {60, 120}
SpeedDivisions == {"quarter", "eighth", "bar"}

\* the length of a subdivision window in ms: 60/BPM is the beat interval
WindowMs(bpm, speedDivision) ==
    CASE speedDivision = "quarter" -> 60000 \div bpm
      [] speedDivision = "eighth" -> 30000 \div bpm
      [] speedDivision = "bar" -> 240000 \div bpm

\* the subdivision window the clock is in
WindowOf(b, elapsed) == elapsed \div WindowMs(b.bpm, b.speedDivision)

\* mutant: level-triggered, the macro fires on every tick close to a boundary
macroFires_Level(b, elapsed) ==
    elapsed % WindowMs(b.bpm, b.speedDivision) < 3 * TickMs

\* edge-triggered: the phase crossed a subdivision boundary since the last trigger
macroFires(b, elapsed) == WindowOf(b, elapsed) # b.lastWindow

\* the beat timer fires delay ms after its last tick
BeatTick(delay) ==
    /\ beat.running /\ beat.elapsed + delay <= MaxElapsedMs
    /\ LET elapsed == beat.elapsed + delay
           fires == macroFires(beat, elapsed)
       IN  /\ beat' = [beat EXCEPT !.elapsed = elapsed,
                                   !.lastWindow = IF fires THEN WindowOf(beat, elapsed)
                                                  ELSE @,
                                   !.fired = IF fires THEN @ + 1 ELSE @]
           /\ out' = [op |-> "beat", fired |-> fires]
    /\ UNCHANGED <<cfgVars, cacheVars, pollVars, apiVars, closeVars, bridgeVars, uiVars, relayVars, wsVars, histVars,
                   mapVars>>

InitBeat ==
    /\ InitServer /\ InitApi /\ InitBridge /\ InitUi /\ Watching
    /\ enableMq = FALSE /\ controlToken = Str(<<>>) /\ brokerUp
    /\ trace = FALSE /\ mapIn = NoCall /\ mapOut = NoCall
    /\ beat \in [running : {TRUE}, bpm : BpmValues, speedDivision : SpeedDivisions,
                 elapsed : {0}, lastWindow : {0}, fired : {0}]

NextBeat == \E delay \in TickDelays : BeatTick(delay)

SpecBeat == InitBeat /\ [][NextBeat]_vars

(* POST /api/lfo/preview *)

\* parseFloat(v) of a request value that is a number or no number at all
\* (the request values of the model are numbers, null or absent)
parseFloat(v) == IF v.t \in {"number", "Infinity"} THEN v ELSE NaN

\* the longest prefix of s made of digits
RECURSIVE DigitPrefix(_)
DigitPrefix(s) ==
    IF s # <<>> /\ IsDigit(Head(s)) THEN <<Head(s)>> \o DigitPrefix(Tail(s)) ELSE <<>>

\* parseInt(v, 10): the whole number at the start of String(v), after white
\* space and a sign; what follows the digits is ignored
parseInt(v) ==
    LET tr == TrimLeft(JSString(v))
        signed == tr # <<>> /\ Head(tr) \in {"+", "-"}
        digits == DigitPrefix(IF signed THEN Tail(tr) ELSE tr)
    IN  IF digits = <<>> THEN NaN
        ELSE Num(100 * (IF Head(tr) = "-" THEN -1 ELSE 1) * DigitsToInt(digits))

\* v || d
OrElse(v, d) == IF Truthy(v) THEN v ELSE d

\* a % b of JavaScript on integers: the remainder takes the sign of the dividend
JSRem(a, b) == IF a < 0 THEN -((-a) % b) ELSE a % b

\* phases are counted in 64ths of a turn (twoPi), waves in 1e-5
TurnParts == 64
WaveOne == 100000

\* Math.sin of k/64 turn for the first quarter turn, in 1e-5
SinTable == <<9802, 19509, 29028, 38268, 47140, 55557, 63439, 70711, 77301, 83147,
              88192, 92388, 95694, 98079, 99518, 100000>>

RECURSIVE sin(_)
sin(k) ==
    IF k < 0 THEN -sin(-k)
    ELSE IF k = 0 THEN 0
    ELSE IF k <= 16 THEN SinTable[k]
    ELSE IF k <= 32 THEN sin(32 - k)
    ELSE -sin(k - 32)

\* 2 * Math.asin(Math.sin(phase)) / Math.PI
RECURSIVE triangle(_)
triangle(k) ==
    IF k < 0 THEN -triangle(-k)
    ELSE IF k <= 16 THEN 6250 * k
    ELSE IF k <= 48 THEN 6250 * (32 - k)
    ELSE 6250 * (k - 64)

\* const phase = t % twoPi
lfoPhase(t) == JSRem(t, TurnParts)

\* the wave of one step at the phase of k/64 turn
lfoWave(shape, k) ==
    CASE shape = Str(<<"T", "r", "i", "a", "n", "g", "l", "e">>) -> triangle(k)
      [] shape = Str(<<"S", "a", "w">>) -> JSRem(3125 * k, 2 * WaveOne) - WaveOne
      [] shape = Str(<<"S", "q", "u", "a", "r", "e">>) ->
            IF k < 32 THEN WaveOne ELSE -WaveOne
      [] OTHER -> sin(k)

\* Number(x.toFixed(3)) of x given in 1e-7: thousandths, halves away from zero
toFixed3(x) == IF x < 0 THEN -((-x + 5000) \div 10000) ELSE (x + 5000) \div 10000

\* the values the generator works with: shape, depth, base, rate (hundredths), steps
lfoSettings(body) ==
    [shape |-> OrElse(Get(body, "shape"), Str(<<"S", "i", "n", "e">>)),
     depth |-> OrElse(parseFloat(Get(body, "depth")), Num(50)).n,
     base |-> OrElse(parseFloat(Get(body, "base")), Num(0)).n,
     rate |-> OrElse(parseFloat(Get(body, "rate")), Num(100)).n,
     steps |-> LET n == OrElse(parseInt(Get(body, "steps")), Num(6400)).n \div 100
               IN  IF n > 512 THEN 512 ELSE IF n < 8 THEN 8 ELSE n]

\* the samples of one period, in thousandths
lfoSamples(body) ==
    LET c == lfoSettings(body)
    IN  [j \in 1..c.steps |->
            LET t == ((j - 1) * c.rate * TurnParts) \div (c.steps * 100)
            IN  toFixed3(c.base * WaveOne + lfoWave(c.shape, lfoPhase(t)) * c.depth)]

LfoRoute == "POST /api/lfo/preview"

LfoShapes ==
    {Str(<<"S", "i", "n", "e">>), Str(<<"T", "r", "i", "a", "n", "g", "l", "e">>),
     Str(<<"S", "a", "w">>), Str(<<"S", "q", "u", "a", "r", "e">>), Undefined}

\* request bodies: the rates are whole and the steps divide 64, so that every
\* phase is a whole number of 64ths of a turn
LfoBodies ==
    {Obj([k \in {"shape", "depth", "base", "rate", "steps"} |->
            CASE k = "shape" -> shape [] k = "depth" -> depth [] k = "base" -> base
              [] k = "rate" -> rate [] k = "steps" -> steps]) :
        shape \in LfoShapes,
        depth \in {Undefined, Num(100), Num(25), Num(-100)},
        base \in {Undefined, Num(100), Num(-50)},
        rate \in {Undefined, Num(200), Num(300), Num(-100)},
        steps \in {Undefined, Num(400), Num(1600)}}

Json(status, body) == [status |-> status, body |-> body]

LfoPreview ==
    /\ req # NoCall /\ req.route = LfoRoute /\ httpPc = "idle"
    /\ res' = Append(res, Json(200, [samples |-> lfoSamples(req.body)]))
    /\ httpPc' = "done"
    /\ UNCHANGED <<req, upstream, fsVars, cfgVars, cacheVars, pollVars, peerVars, closeVars, relayVars,
                   wsVars, histVars, mapVars, out>>

\* the server as it serves one request
InitRequest ==
    /\ InitServer /\ InitPeers /\ Watching
    /\ enableMq = FALSE /\ controlToken = Str(<<>>) /\ brokerUp
    /\ trace = FALSE /\ mapIn = NoCall /\ mapOut = NoCall
    /\ res = <<>> /\ httpPc = "idle" /\ upstream = NoUpstream

InitLfo == InitRequest /\ InitFs /\ req \in [route : {LfoRoute}, body : LfoBodies]

SpecLfo == InitLfo /\ [][LfoPreview]_vars

(* GET /api/mediator/state *)

MediatorStateRoute == "GET /api/mediator/state"

\* start(): opts.mediatorHost || process.env.DEF_MEDIATOR_HOST || "localhost"
mediatorHost == Str(<<"l", "o", "c", "a", "l", "h", "o", "s", "t">>)
mediatorPort == Str(<<"8", "7", "6", "6">>)

\* what the probe may have written to its stdout when it closes
ProbeOutputs == {"", "{}", "{\"cfg\": 7}", "{\"cfg\": ", "Traceback"}

\* JSON.parse on the texts of the model
JSONParse(text) ==
    CASE text = "{}" -> EmptyObj
      [] text = "{\"cfg\": 7}" -> One("cfg", Num(700))
      [] OTHER -> BadJson

\* the exit codes 'close' is emitted with (null: the probe was killed by a signal)
ExitCodes == {Num(0), Num(100), Null}

\* const keys = typeof req.query.keys === "string" ? req.query.keys : ""
probeKeys(query) ==
    LET keys == Get(query, "keys") IN IF TypeOf(keys) = "string" THEN keys.s ELSE <<>>

\* the arguments of the probe
probeArgs(query) ==
    <<Str(<<"-", "m">>), Str(<<"m", "e", "d", "i", "a", "t", "o", "r", "_", "s", "t", "a", "t", "e">>),
      Str(<<"-", "-", "h", "o", "s", "t">>), mediatorHost,
      Str(<<"-", "-", "p", "o", "r", "t">>), mediatorPort>>
    \o (IF Truthy(Str(probeKeys(query)))
        THEN <<Str(<<"-", "-", "k", "e", "y", "s">>), Str(probeKeys(query))>>
        ELSE <<>>)

\* res.status(..).json(..) in a listener of the child: it throws when the
\* response was sent already, and nothing catches what a listener throws
AnswerOnce(answer, pc) ==
    IF res = <<>>
    THEN res' = <<answer>> /\ httpPc' = pc
    ELSE UNCHANGED res /\ httpPc' = "uncaught"

\* the handler up to the return of spawner(): usable tells whether it returned
\* a child with stdout and stderr
MediatorSpawn(usable) ==
    /\ req # NoCall /\ req.route = MediatorStateRoute /\ httpPc = "idle"
    /\ IF usable
       THEN httpPc' = "running" /\ UNCHANGED res
       ELSE /\ res' = <<Json(500, [error |-> "mediator probe unavailable"])>>
            /\ httpPc' = "done"
    /\ out' = [op |-> "probe", event |-> IF usable THEN "spawn" ELSE "nochild",
               args |-> probeArgs(req.query)]
    /\ UNCHANGED <<req, upstream, fsVars, cfgVars, cacheVars, pollVars, peerVars, closeVars, relayVars,
                   wsVars, histVars, mapVars>>

\* child.on("error"): the probe could not be spawned
ChildError ==
    /\ req # NoCall /\ req.route = MediatorStateRoute /\ httpPc = "running"
    /\ AnswerOnce(Json(503, [error |-> "mediator probe failed"]), "errored")
    /\ out' = [op |-> "probe", event |-> "error", args |-> probeArgs(req.query)]
    /\ UNCHANGED <<req, upstream, fsVars, cfgVars, cacheVars, pollVars, peerVars, closeVars, relayVars,
                   wsVars, histVars, mapVars>>

\* child.on("close"): 'close' may follow 'error'
ChildClose(code, stdout) ==
    /\ req # NoCall /\ req.route = MediatorStateRoute /\ httpPc \in {"running", "errored"}
    /\ LET parsed == JSONParse(IF stdout = "" THEN "{}" ELSE stdout)
       IN  AnswerOnce(IF code # Num(0)
                      THEN Json(503, [error |-> "mediator probe failed"])
                      ELSE IF parsed = BadJson
                      THEN Json(500, [error |-> "invalid mediator response"])
                      ELSE Json(200, parsed),
                      "done")
    /\ out' = [op |-> "probe", event |-> "close", code |-> code, stdout |-> stdout,
               after |-> httpPc, args |-> probeArgs(req.query)]
    /\ UNCHANGED <<req, upstream, fsVars, cfgVars, cacheVars, pollVars, peerVars, closeVars, relayVars,
                   wsVars, histVars, mapVars>>

ProbeQueries ==
    {EmptyObj, One("keys", Str(<<"c", "f", "g">>)), One("keys", Str(<<>>)),
     One("keys", Arr(<<Str(<<"c", "f", "g">>), Str(<<"f", "o", "v">>)>>))}

InitMediatorState ==
    InitRequest /\ InitFs /\ req \in [route : {MediatorStateRoute}, query : ProbeQueries]

NextMediatorState ==
    \/ \E usable \in BOOLEAN : MediatorSpawn(usable)
    \/ ChildError
    \/ \E code \in ExitCodes, stdout \in ProbeOutputs : ChildClose(code, stdout)

SpecMediatorState == InitMediatorState /\ [][NextMediatorState]_vars

(* GET /api/frames *)

FramesRoute == "GET /api/frames"

\* s ends with suffix
EndsWith(s, suffix) ==
    Len(s) >= Len(suffix) /\ SubSeq(s, Len(s) - Len(suffix) + 1, Len(s)) = suffix

\* /\.(png|jpg|jpeg|webp)$/i.test(name)
isImageName(name) ==
    \E ext \in {<<".", "p", "n", "g">>, <<".", "j", "p", "g">>,
                <<".", "j", "p", "e", "g">>, <<".", "w", "e", "b", "p">>} :
        EndsWith(ToLowerCase(name), ext)

\* f.name.match(/(\d{3,})/): the first run of three digits or more, as a number
RECURSIVE frameNumber(_)
frameNumber(name) ==
    IF name = <<>> THEN Null
    ELSE IF Len(DigitPrefix(name)) >= 3 THEN Num(100 * DigitsToInt(DigitPrefix(name)))
    ELSE IF DigitPrefix(name) # <<>>
    THEN frameNumber(SubSeq(name, Len(DigitPrefix(name)) + 1, Len(name)))
    ELSE frameNumber(Tail(name))

\* Math.max(1, Math.min(50, parseInt(req.query.limit, 10) || 12))
frameLimit(query) ==
    LET n == OrElse(parseInt(Get(query, "limit")), Num(1200)).n
    IN  IF n > 5000 THEN 50 ELSE IF n < 100 THEN 1 ELSE n \div 100

\* stats.sort((a, b) => b.mtime - a.mtime): stable, newest first
RECURSIVE sortByMtime(_)
sortByMtime(stats) ==
    IF stats = <<>> THEN <<>>
    ELSE LET rest == sortByMtime(Tail(stats))
             before == SelectSeq(rest, LAMBDA f : f.mtime > Head(stats).mtime)
             after == SelectSeq(rest, LAMBDA f : f.mtime <= Head(stats).mtime)
         IN  before \o <<Head(stats)>> \o after

\* the regular files with the name of an image, in the order of readdir
frameFiles(entries) == SelectSeq(entries, LAMBDA e : e.isFile /\ isImageName(e.name))

frameItems(entries, limit) ==
    LET stats == sortByMtime(frameFiles(entries))
        shown == SubSeq(stats, 1, IF Len(stats) < limit THEN Len(stats) ELSE limit)
    IN  [i \in 1..Len(shown) |->
            [src |-> <<"/", "f", "r", "a", "m", "e", "s", "/">> \o shown[i].name,
             name |-> shown[i].name, frame |-> frameNumber(shown[i].name),
             mtime |-> shown[i].mtime]]

\* the whole handler; err is what readdir or a stat rejects with
Frames ==
    /\ req # NoCall /\ req.route = FramesRoute /\ httpPc = "idle"
    /\ res' = <<CASE framesDir.err = "none" ->
                        Json(200, [items |-> frameItems(framesDir.entries,
                                                        frameLimit(req.query))])
                  [] framesDir.err = "ENOENT" -> Json(200, [items |-> <<>>])
                  [] OTHER -> Json(500, [error |-> "frames unavailable"])>>
    /\ httpPc' = "done"
    /\ UNCHANGED <<req, upstream, fsVars, cfgVars, cacheVars, pollVars, peerVars, closeVars, relayVars, wsVars, histVars,
                   mapVars, out>>

\* the entries of the directories of the model
SampleEntries ==
    <<[name |-> <<"f", "0", "1", "0", ".", "p", "n", "g">>, isFile |-> TRUE, mtime |-> 3],
      [name |-> <<"n", ".", "t", "x", "t">>, isFile |-> TRUE, mtime |-> 5],
      [name |-> <<"f", "0", "0", "5", ".", "J", "P", "G">>, isFile |-> TRUE, mtime |-> 1],
      [name |-> <<"d", ".", "p", "n", "g">>, isFile |-> FALSE, mtime |-> 4],
      [name |-> <<"a", "7", ".", "w", "e", "b", "p">>, isFile |-> TRUE, mtime |-> 3]>>

\* the entries of SampleEntries at the indices of keep, in their order
RECURSIVE Pick(_, _)
Pick(entries, keep) ==
    IF entries = <<>> THEN <<>>
    ELSE (IF Len(entries) \in keep THEN Pick(SubSeq(entries, 1, Len(entries) - 1), keep)
                                         \o <<entries[Len(entries)]>>
          ELSE Pick(SubSeq(entries, 1, Len(entries) - 1), keep))

SampleDirs ==
    {[err |-> "none", entries |-> Pick(SampleEntries, keep)] :
        keep \in SUBSET (1..Len(SampleEntries))}
    \cup {[err |-> e, entries |-> <<>>] : e \in {"ENOENT", "EACCES"}}

FrameQueries ==
    {EmptyObj} \cup {One("limit", Str(l)) :
                        l \in {<<"0">>, <<"1">>, <<"2">>, <<"-", "5">>, <<"9", "9">>,
                               <<"2", "x">>, <<"a", "l", "l">>, <<>>}}

InitFrames ==
    /\ InitRequest /\ presetsDir = <<>> /\ presetLog = <<>>
    /\ framesDir \in SampleDirs
    /\ req \in [route : {FramesRoute}, query : FrameQueries]

SpecFrames == InitFrames /\ [][Frames]_vars

(* GET /api/controlnet/models, GET /api/loras *)

ControlnetRoute == "GET /api/controlnet/models"
LorasRoute == "GET /api/loras"

Chars(str) ==
    CASE str = "canny" -> <<"c", "a", "n", "n", "y">>
      [] str = "edge" -> <<"e", "d", "g", "e">>
      [] str = "depth" -> <<"d", "e", "p", "t", "h">>
      [] str = "pose" -> <<"p", "o", "s", "e">>
      [] str = "openpose" -> <<"o", "p", "e", "n", "p", "o", "s", "e">>
      [] str = "scribble" -> <<"s", "c", "r", "i", "b", "b", "l", "e">>
      [] str = "pidinet" -> <<"p", "i", "d", "i", "n", "e", "t">>
      [] str = "tile" -> <<"t", "i", "l", "e">>
      [] str = "blur" -> <<"b", "l", "u", "r">>
      [] str = "lineart" -> <<"l", "i", "n", "e", "a", "r", "t">>
      [] str = "mlsd" -> <<"m", "l", "s", "d">>
      [] str = "normal" -> <<"n", "o", "r", "m", "a", "l">>
      [] str = "seg" -> <<"s", "e", "g">>
      [] str = "semantic" -> <<"s", "e", "m", "a", "n", "t", "i", "c">>
      [] str = "lora_" -> <<"l", "o", "r", "a", "_">>
      [] str = "Model " -> <<"M", "o", "d", "e", "l", " ">>
      [] str = "LoRA " -> <<"L", "o", "R", "A", " ">>

\* s.includes(sub)
Includes(s, sub) ==
    \E i \in 1..(Len(s) - Len(sub) + 1) : SubSeq(s, i, i + Len(sub) - 1) = sub

\* s.replace(/[^a-z0-9]+/g, "_")
IsSlugChar(c) == IsDigit(c) \/ \E j \in 1..Len(LowerChars) : LowerChars[j] = c
RECURSIVE Slug(_)
Slug(s) ==
    IF s = <<>> THEN <<>>
    ELSE IF IsSlugChar(Head(s)) THEN <<Head(s)>> \o Slug(Tail(s))
    ELSE IF Tail(s) # <<>> /\ ~IsSlugChar(Head(Tail(s))) THEN Slug(Tail(s))
    ELSE <<"_">> \o Slug(Tail(s))

categorizeControlNetModel(name) ==
    LET has(str) == Includes(ToLowerCase(name), Chars(str))
    IN  IF has("canny") \/ has("edge") THEN "edge"
        ELSE IF has("depth") THEN "depth"
        ELSE IF has("pose") \/ has("openpose") THEN "pose"
        ELSE IF has("scribble") \/ has("pidinet") THEN "line"
        ELSE IF has("tile") \/ has("blur") THEN "style"
        ELSE IF has("lineart") \/ has("mlsd") THEN "line"
        ELSE IF has("normal") THEN "depth"
        ELSE IF has("seg") \/ has("semantic") THEN "semantic"
        ELSE "other"

\* a || b || c
Or3(a, b, c) == IF Truthy(a) THEN a ELSE IF Truthy(b) THEN b ELSE c

\* data.model_list || data.models || []
modelList(data) == Or3(Get(data, "model_list"), Get(data, "models"), Arr(<<>>))

\* the name the handler takes for the idx-th model
modelName(model, idx) ==
    IF model.t = "string" THEN model
    ELSE Or3(Get(model, "name"), Get(model, "model_name"),
             Str(Chars("Model ") \o IntToChars(idx)))

\* the name and the path the handler takes for the idx-th LoRA
loraName(lora, idx) ==
    Or3(Get(lora, "name"), Get(lora, "alias"), Str(Chars("LoRA ") \o IntToChars(idx)))
loraPath(lora, idx) == Or3(Get(lora, "path"), Get(lora, "filename"), loraName(lora, idx))

\* the handler throws a TypeError while it reads the body of the upstream answer
formatThrows(route, data) ==
    IF route = ControlnetRoute
    THEN \/ Throws(data)
         \/ modelList(data).t # "array"
         \/ \E i \in 1..Len(modelList(data).a) :
               \/ Throws(modelList(data).a[i])
               \/ modelName(modelList(data).a[i], i).t # "string"
    ELSE /\ data.t = "array"
         /\ \E i \in 1..Len(data.a) :
               Throws(data.a[i]) \/ loraName(data.a[i], i).t # "string"

\* the body of the answer built from the upstream list
upstreamBody(route, data) ==
    IF route = ControlnetRoute
    THEN [models |-> [i \in 1..Len(modelList(data).a) |->
                        LET name == modelName(modelList(data).a[i], i).s
                        IN  [id |-> Slug(ToLowerCase(name)), name |-> name,
                             category |-> categorizeControlNetModel(name)]],
          source |-> "sd-forge"]
    ELSE [loras |-> [i \in 1..(IF data.t = "array" THEN Len(data.a) ELSE 0) |->
                        LET name == loraName(data.a[i], i).s
                        IN  [id |-> Chars("lora_") \o IntToChars(i - 1) \o <<"_">>
                                    \o Slug(ToLowerCase(name)),
                             name |-> name, path |-> loraPath(data.a[i], i),
                             thumbnail |-> Or3(Get(data.a[i], "preview"),
                                               Get(data.a[i], "thumbnail"), Null),
                             strength |-> 100]],
          source |-> "sd-forge"]

\* response.ok
responseOk(status) == 200 <= status /\ status <= 299

\* the static lists, by the ids of their entries
placeholderModels ==
    <<"canny", "depth", "openpose", "scribble", "tile", "lineart", "mlsd", "normal", "seg">>
placeholderLoras ==
    <<"lora_sdxl_lightning_1", "lora_detail_tweaker_1", "lora_style_anime_1",
      "lora_photorealism_1", "lora_cyberpunk_1", "lora_watercolor_1">>

placeholderBody(route) ==
    IF route = ControlnetRoute
    THEN [models |-> placeholderModels, source |-> "placeholder"]
    ELSE [loras |-> placeholderLoras, source |-> "placeholder"]

Proxying == req # NoCall /\ req.route \in {ControlnetRoute, LorasRoute}

\* res.json(body), the single place a path of the handler answers at
ProxyAnswer(event, body) ==
    /\ res' = Append(res, Json(200, body))
    /\ httpPc' = "done"
    /\ out' = [op |-> "answer", event |-> event, late |-> upstream.elapsed]

\* the handler up to await fetch(): without a global fetch it throws at once
ProxyStart(fetchDefined) ==
    /\ Proxying /\ httpPc = "idle"
    /\ IF fetchDefined
       THEN /\ httpPc' = "fetching" /\ upstream' = [upstream EXCEPT !.timer = TRUE]
            /\ out' = [op |-> "fetch"]
            /\ UNCHANGED res
       ELSE ProxyAnswer("nofetch", placeholderBody(req.route)) /\ UNCHANGED upstream
    /\ UNCHANGED <<req, fsVars, cfgVars, cacheVars, pollVars, peerVars, closeVars, relayVars, wsVars, histVars,
                   mapVars>>

\* environment: 2 s have passed since the handler called fetch
TwoSecondsPass ==
    /\ Proxying /\ httpPc \in {"fetching", "reading", "done"} /\ ~upstream.elapsed
    /\ upstream' = [upstream EXCEPT !.elapsed = TRUE]
    /\ out' = [op |-> "clock"]
    /\ UNCHANGED <<req, res, httpPc, fsVars, cfgVars, cacheVars, pollVars, peerVars, closeVars, relayVars,
                   wsVars, histVars, mapVars>>

\* setTimeout(() => controller.abort(), 2000)
AbortTimer ==
    /\ Proxying /\ upstream.timer /\ upstream.elapsed
    /\ upstream' = [upstream EXCEPT !.timer = FALSE, !.aborted = TRUE]
    /\ out' = [op |-> "abort"]
    /\ UNCHANGED <<req, res, httpPc, fsVars, cfgVars, cacheVars, pollVars, peerVars, closeVars, relayVars,
                   wsVars, histVars, mapVars>>

\* await fetch() resolves with the head of the answer; clearTimeout(timeout).
\* A head that comes after the 2 s mark comes after the abort: the event loop
\* runs a timer that is due before it looks at the network.
FetchResolve(status) ==
    /\ Proxying /\ httpPc = "fetching" /\ ~upstream.aborted /\ ~upstream.elapsed
    /\ upstream' = [upstream EXCEPT !.timer = FALSE, !.status = status]
    /\ IF responseOk(status)
       THEN httpPc' = "reading" /\ out' = [op |-> "head"] /\ UNCHANGED res
       ELSE ProxyAnswer("notok", placeholderBody(req.route))
    /\ UNCHANGED <<req, fsVars, cfgVars, cacheVars, pollVars, peerVars, closeVars, relayVars, wsVars, histVars,
                   mapVars>>

\* await fetch() rejects: the call failed or was aborted
FetchReject ==
    /\ Proxying /\ httpPc = "fetching"
    /\ ProxyAnswer(IF upstream.aborted THEN "timeout" ELSE "failed",
                   placeholderBody(req.route))
    /\ UNCHANGED <<req, upstream, fsVars, cfgVars, cacheVars, pollVars, peerVars, closeVars, relayVars, wsVars,
                   histVars, mapVars>>

\* await response.json() resolves with data
BodyResolve(data) ==
    /\ Proxying /\ httpPc = "reading"
    /\ upstream' = [upstream EXCEPT !.data = data]
    /\ IF formatThrows(req.route, data)
       THEN ProxyAnswer("bad", placeholderBody(req.route))
       ELSE ProxyAnswer("list", upstreamBody(req.route, data))
    /\ UNCHANGED <<req, fsVars, cfgVars, cacheVars, pollVars, peerVars, closeVars, relayVars, wsVars,
                   histVars, mapVars>>

\* await response.json() rejects: the body is no JSON or the connection broke
BodyReject ==
    /\ Proxying /\ httpPc = "reading"
    /\ ProxyAnswer("bad", placeholderBody(req.route))
    /\ UNCHANGED <<req, upstream, fsVars, cfgVars, cacheVars, pollVars, peerVars, closeVars, relayVars, wsVars,
                   histVars, mapVars>>

\* what the upstream may answer with
UpstreamStatuses == {200, 204, 404, 500, 503}
UpstreamData ==
    {Obj([k \in {"model_list"} |->
            Arr(<<Str(<<"C", "a", "n", "n", "y", " ", "v", "1">>),
                  One("name", Str(<<"m", "y", "-", "-", "D", "e", "p", "t", "h">>))>>)]),
     One("models", Arr(<<One("model_name", Str(<<"P", "o", "s", "e">>)), EmptyObj>>)),
     One("model_list", Arr(<<Null>>)),
     One("model_list", Str(<<"x">>)),
     One("model_list", Arr(<<One("name", Num(700))>>)),
     EmptyObj, Null, Arr(<<>>), Arr(<<Null>>),
     Arr(<<One("name", Str(<<"A", "n", "i", "m", "e", " ", "X", "L">>)), EmptyObj>>),
     Arr(<<One("alias", Num(700))>>)}

InitProxy == InitRequest /\ InitFs /\ req \in [route : {ControlnetRoute, LorasRoute}]

NextProxy ==
    \/ \E fetchDefined \in BOOLEAN : ProxyStart(fetchDefined)
    \/ TwoSecondsPass
    \/ AbortTimer
    \/ \E status \in UpstreamStatuses : FetchResolve(status)
    \/ FetchReject
    \/ \E data \in UpstreamData : BodyResolve(data)
    \/ BodyReject

SpecProxy == InitProxy /\ [][NextProxy]_vars

(* POST /api/audio-map *)

AudioMapRoute == "POST /api/audio-map"

\* Math.abs(v) and -v of a JavaScript value
AbsNum(num) ==
    CASE num.t = "number" -> Num(IF num.n < 0 THEN -num.n ELSE num.n)
      [] num.t = "Infinity" -> Infinity(1)
      [] OTHER -> NaN
Abs(v) == AbsNum(JSNumber(v))
Neg(num) ==
    CASE num.t = "number" -> Num(-num.n)
      [] num.t = "Infinity" -> Infinity(-num.n)
      [] OTHER -> NaN

\* a ?? b
Coalesce(a, b) == IF a.t \in {"null", "undefined"} THEN b ELSE a

Band(param, freq_min, freq_max, intensity) ==
    Obj([k \in {"param", "freq_min", "freq_max", "intensity"} |->
            CASE k = "param" -> param [] k = "freq_min" -> freq_min
              [] k = "freq_max" -> freq_max [] k = "intensity" -> intensity])

Mapping(param, freq_min, freq_max, out_min, out_max) ==
    Obj([k \in {"param", "freq_min", "freq_max", "out_min", "out_max"} |->
            CASE k = "param" -> param [] k = "freq_min" -> freq_min
              [] k = "freq_max" -> freq_max [] k = "out_min" -> out_min
              [] k = "out_max" -> out_max])

baseBands ==
    <<Band(Str(<<"t", "r", "a", "n", "s", "l", "a", "t", "i", "o", "n", "_", "x">>),
           Num(2000), Num(18000), Num(100)),
      Band(Str(<<"t", "r", "a", "n", "s", "l", "a", "t", "i", "o", "n", "_", "y">>),
           Num(18000), Num(120000), Num(100)),
      Band(Str(<<"t", "r", "a", "n", "s", "l", "a", "t", "i", "o", "n", "_", "z">>),
           Num(120000), Num(400000), Num(100))>>

\* body.bands.map(...) throws: an element of bands is null
userBandsThrow(body) ==
    /\ Get(body, "bands").t = "array"
    /\ \E i \in 1..Len(Get(body, "bands").a) : Throws(Get(body, "bands").a[i])

\* one element of body.bands.map(...)
userBand(b) ==
    Band(Get(b, "param"), JSNumber(Get(b, "freq_min")), JSNumber(Get(b, "freq_max")),
         IF Get(b, "intensity").t \in {"null", "undefined"}
         THEN Num(100) ELSE JSNumber(Get(b, "intensity")))

userBands(body) ==
    IF Get(body, "bands").t = "array"
    THEN [i \in 1..Len(Get(body, "bands").a) |-> userBand(Get(body, "bands").a[i])]
    ELSE <<>>

\* out_min: -(Math.abs(b.intensity || 1)), out_max: Math.abs(b.intensity || 1)
bandRange(b) ==
    <<Neg(Abs(OrElse(Get(b, "intensity"), Num(100)))),
      Abs(OrElse(Get(b, "intensity"), Num(100)))>>

\* const bands = userBands.length ? userBands : baseBands
chosenBands(body) == IF userBands(body) # <<>> THEN userBands(body) ELSE baseBands

bandMapping(b) ==
    Mapping(Get(b, "param"), Get(b, "freq_min"), Get(b, "freq_max"),
            bandRange(b)[1], bandRange(b)[2])

bandMappings(body) ==
    [i \in 1..Len(chosenBands(body)) |-> bandMapping(chosenBands(body)[i])]

\* const finalMappings = mappings.length ? mappings : bandMappings
finalMappings(body) ==
    IF Get(body, "mappings").t = "array" /\ Get(body, "mappings").a # <<>>
    THEN Get(body, "mappings").a
    ELSE bandMappings(body)

\* JSON.stringify of a number: what is not finite becomes null
jsonNumber(num) == IF IsFinite(num) THEN num ELSE Null

\* the value JSON.parse reads back from mappingArg; a param that is undefined
\* is left out by JSON.stringify
mappingFields(m) ==
    Mapping(Get(m, "param"), jsonNumber(JSNumber(Get(m, "freq_min"))),
            jsonNumber(JSNumber(Get(m, "freq_max"))),
            jsonNumber(JSNumber(Coalesce(Get(m, "out_min"),
                IF Truthy(Get(m, "intensity"))
                THEN Neg(Abs(Get(m, "intensity"))) ELSE Num(0)))),
            jsonNumber(JSNumber(Coalesce(Get(m, "out_max"),
                IF Truthy(Get(m, "intensity"))
                THEN Abs(Get(m, "intensity")) ELSE Num(100)))))
withoutUndefined(whole) ==
    Obj([k \in {x \in DOMAIN whole.f : whole.f[x] # Undefined} |-> whole.f[k]])
mappingArg(body) ==
    [i \in 1..Len(finalMappings(body)) |->
        withoutUndefined(mappingFields(finalMappings(body)[i]))]

\* finalMappings.map(...) throws: an element of the mappings is null
mappingArgThrows(body) ==
    \E i \in 1..Len(finalMappings(body)) : Throws(finalMappings(body)[i])

\* the arguments of the modulator that depend on the request
audioMapArgs(body) ==
    [audio |-> Get(body, "audioPath"),
     fps |-> OrElse(parseInt(Get(body, "fps")), Num(2400)),
     mapping |-> mappingArg(body),
     output |-> IF Truthy(Get(body, "output")) THEN Get(body, "output") ELSE Undefined,
     live |-> Truthy(Get(body, "live"))]

\* the handler up to the return of spawner(); usable: it returned a child
AudioMapSpawn(usable) ==
    /\ req # NoCall /\ req.route = AudioMapRoute /\ httpPc = "idle"
    /\ \E body \in {OrEmpty(req.body)} :
          IF ~Truthy(Get(body, "audioPath"))
          THEN /\ res' = <<Json(400, [error |-> "audioPath required"])>>
               /\ httpPc' = "done" /\ out' = [op |-> "audioMap", event |-> "refused"]
          ELSE IF userBandsThrow(body)
          THEN /\ httpPc' = "rejected" /\ out' = [op |-> "audioMap", event |-> "threw"]
               /\ UNCHANGED res
          ELSE IF mappingArgThrows(body)
          THEN /\ res' = <<Json(400, [error |-> "invalid mappings"])>>
               /\ httpPc' = "done" /\ out' = [op |-> "audioMap", event |-> "refused"]
          ELSE /\ out' = [op |-> "audioMap", event |-> "spawn", args |-> audioMapArgs(body)]
               /\ IF usable
                  THEN httpPc' = "running" /\ UNCHANGED res
                  ELSE /\ res' = <<Json(500, [error |-> "could not start audio processor"])>>
                       /\ httpPc' = "done"
    /\ UNCHANGED <<req, upstream, fsVars, cfgVars, cacheVars, pollVars, peerVars, closeVars, relayVars, wsVars,
                   histVars, mapVars>>

\* child.on("error")
AudioChildError ==
    /\ req # NoCall /\ req.route = AudioMapRoute /\ httpPc = "running"
    /\ AnswerOnce(Json(500, [error |-> "spawn error"]), "errored")
    /\ out' = [op |-> "audioMap", event |-> "error"]
    /\ UNCHANGED <<req, upstream, fsVars, cfgVars, cacheVars, pollVars, peerVars, closeVars, relayVars, wsVars,
                   histVars, mapVars>>

\* child.on("close")
AudioChildClose(code) ==
    /\ req # NoCall /\ req.route = AudioMapRoute /\ httpPc \in {"running", "errored"}
    /\ AnswerOnce(Json(200, [ok |-> code = Num(0), code |-> code]), "done")
    /\ out' = [op |-> "audioMap", event |-> "close"]
    /\ UNCHANGED <<req, upstream, fsVars, cfgVars, cacheVars, pollVars, peerVars, closeVars, relayVars, wsVars,
                   histVars, mapVars>>

CfgChars == <<"c", "f", "g">>
StrengthChars == <<"s", "t", "r", "e", "n", "g", "t", "h">>

SampleBands ==
    {Undefined, Arr(<<>>),
     Arr(<<Band(Str(CfgChars), Num(5000), Num(50000), Num(200))>>),
     Arr(<<Band(Str(CfgChars), Num(2000), Num(8000), Num(50)),
           Band(Str(StrengthChars), Num(8000), Num(20000), Num(-150)),
           Band(Str(CfgChars), Str(<<"7">>), Num(400000), Str(<<"7", ".", "5">>))>>),
     Arr(<<Band(Str(CfgChars), Num(2000), Num(8000), Num(0))>>),
     Arr(<<Band(Str(CfgChars), Num(2000), Num(8000), Undefined),
           Band(Undefined, Num(2000), Num(8000), Null)>>),
     Arr(<<Null>>)}

SampleMappings ==
    {Undefined, Arr(<<>>),
     Arr(<<Mapping(Str(CfgChars), Num(2000), Num(30000), Num(0), Num(1000))>>),
     Arr(<<One("intensity", Num(200)), One("param", Str(StrengthChars))>>),
     Arr(<<Null>>)}

AudioMapBodies ==
    {Obj([k \in {"audioPath", "bands", "mappings", "live"} |->
            CASE k = "audioPath" -> audioPath [] k = "bands" -> bands
              [] k = "mappings" -> mappings [] k = "live" -> live]) :
        audioPath \in {Str(<<"s", ".", "w", "a", "v">>), Undefined},
        bands \in SampleBands, mappings \in SampleMappings, live \in {Bool(TRUE), Undefined}}

InitAudioMap ==
    InitRequest /\ InitFs /\ req \in [route : {AudioMapRoute}, body : AudioMapBodies]

NextAudioMap ==
    \/ \E usable \in BOOLEAN : AudioMapSpawn(usable)
    \/ AudioChildError
    \/ \E code \in ExitCodes : AudioChildClose(code)

SpecAudioMap == InitAudioMap /\ [][NextAudioMap]_vars

(* /api/presets *)

\* req.params.name.replace(/[^a-zA-Z0-9_-]/g, "")
IsNameChar(c) ==
    \/ IsDigit(c) \/ c \in {"_", "-"}
    \/ \E j \in 1..Len(LowerChars) : LowerChars[j] = c \/ UpperChars[j] = c
\* mutant: the name is taken as it was requested
sanitizeName_Raw(name) == name
sanitizeName(name) == SelectSeq(name, IsNameChar)

JsonExt == <<".", "j", "s", "o", "n">>

\* path.join(presetsDir, `${name}.json`), within presetsDir
presetFile(name) == name \o JsonExt

\* a path is the sequence of its segments; the segments of a string
RECURSIVE SplitSlash(_)
SplitSlash(chars) ==
    IF \A i \in 1..Len(chars) : chars[i] # "/" THEN <<chars>>
    ELSE \E i \in {CHOOSE j \in 1..Len(chars) :
                        chars[j] = "/" /\ \A k \in 1..(j - 1) : chars[k] # "/"} :
            <<SubSeq(chars, 1, i - 1)>> \o SplitSlash(SubSeq(chars, i + 1, Len(chars)))

\* path.normalize: "" and "." are dropped, ".." leaves the directory
RECURSIVE Normalize(_, _)
Normalize(done, segments) ==
    IF segments = <<>> THEN done
    ELSE IF Head(segments) \in {<<>>, <<".">>} THEN Normalize(done, Tail(segments))
    ELSE IF Head(segments) = <<".", ".">>
    THEN Normalize(IF done = <<>> THEN done ELSE SubSeq(done, 1, Len(done) - 1),
                   Tail(segments))
    ELSE Normalize(Append(done, Head(segments)), Tail(segments))

\* path.join(dir, file)
pathJoin(dir, file) == Normalize(<<>>, dir \o SplitSlash(file))

\* the presets directory of the server
PresetsRoot == <<<<"a", "p", "p">>, <<"p", "r", "e", "s", "e", "t", "s">>>>

\* const filePath = path.join(presetsDir, `${name}.json`)
filePath(name) == pathJoin(PresetsRoot, presetFile(sanitizeName(name)))

\* the files a request reads, writes or removes
touchedPaths(method, name) ==
    IF method = "LIST" \/ sanitizeName(name) = <<>> THEN {} ELSE {filePath(name)}

\* JSON.stringify(preset, null, 2) and JSON.parse of what was written: the
\* bodies of the model are JSON values, which the text holds as they are
stringify(value) == [json |-> value]
parseText(text) == text.json

\* presetsDir with file written or removed
WriteFile(dir, file, text) ==
    [f \in DOMAIN dir \cup {file} |-> IF f = file THEN text ELSE dir[f]]
\* mutant: the file stays
Unlink_Keep(dir, file) == dir
Unlink(dir, file) == [f \in DOMAIN dir \ {file} |-> dir[f]]

\* history: what the log says of a requested name
NeverSaved == [saved |-> FALSE]
LogOf(name) == IF name \in DOMAIN presetLog THEN presetLog[name] ELSE NeverSaved

\* one request is handled from start to end; the answer replaces the last one
PresetStep(method, name, answer, was) ==
    /\ req' = [route |-> "/api/presets", method |-> method, name |-> name]
    /\ res' = <<answer>>
    /\ httpPc' = "done"
    /\ out' = [op |-> "preset", was |-> was, touched |-> touchedPaths(method, name)]
    /\ UNCHANGED <<upstream, framesDir, cfgVars, cacheVars, pollVars, peerVars, closeVars, relayVars, wsVars,
                   histVars, mapVars>>

\* the file a load reads
loadFile(name) == presetFile(sanitizeName(name))

\* app.get("/api/presets/:name")
PresetLoad(name) ==
    /\ PresetStep("GET", name,
          IF sanitizeName(name) = <<>> THEN Json(400, [error |-> "invalid preset name"])
          ELSE IF loadFile(name) \notin DOMAIN presetsDir
          THEN Json(404, [error |-> "preset not found"])
          ELSE Json(200, [name |-> sanitizeName(name),
                          preset |-> parseText(presetsDir[loadFile(name)])]),
          LogOf(name))
    /\ UNCHANGED <<presetsDir, presetLog>>

\* app.post("/api/presets/:name")
PresetSave(name, body) ==
    /\ \E ok \in {sanitizeName(name) # <<>> /\ Truthy(body) /\ TypeOf(body) = "object"} :
          /\ PresetStep("POST", name,
                IF sanitizeName(name) = <<>>
                THEN Json(400, [error |-> "invalid preset name"])
                ELSE IF ~ok THEN Json(400, [error |-> "invalid preset data"])
                ELSE Json(200, [ok |-> TRUE, name |-> sanitizeName(name)]),
                LogOf(name))
          /\ presetsDir' = IF ok THEN WriteFile(presetsDir, presetFile(sanitizeName(name)),
                                                stringify(body))
                           ELSE presetsDir
          /\ presetLog' = IF ok THEN WriteFile(presetLog, name,
                                               [saved |-> TRUE, body |-> body])
                          ELSE presetLog

\* app.delete("/api/presets/:name")
PresetDelete(name) ==
    /\ \E found \in {sanitizeName(name) # <<>>
                       /\ presetFile(sanitizeName(name)) \in DOMAIN presetsDir} :
          /\ PresetStep("DELETE", name,
                IF sanitizeName(name) = <<>>
                THEN Json(400, [error |-> "invalid preset name"])
                ELSE IF ~found THEN Json(404, [error |-> "preset not found"])
                ELSE Json(200, [ok |-> TRUE]),
                LogOf(name))
          /\ presetsDir' = IF found THEN Unlink(presetsDir, presetFile(sanitizeName(name)))
                           ELSE presetsDir
          /\ presetLog' = IF found THEN WriteFile(presetLog, name, NeverSaved)
                          ELSE presetLog

\* app.get("/api/presets"): the names of the .json files
PresetList ==
    /\ PresetStep("LIST", <<>>,
          Json(200, [presets |->
                {SubSeq(f, 1, Len(f) - Len(JsonExt)) :
                    f \in {g \in DOMAIN presetsDir : EndsWith(g, JsonExt)}}]),
          NeverSaved)
    /\ UNCHANGED <<presetsDir, presetLog>>

PresetNames ==
    {<<"a", "b">>, <<"a", ".", "b">>, <<"b">>, <<".", ".", "/", "b">>,
     <<".", ".", "/", ".", ".">>}
PresetBodies ==
    {One("bpm", Num(12000)), One("bpm", Num(14000)), Undefined}

InitPresets == InitRequest /\ InitFs /\ req = NoCall

NextPresets ==
    \/ \E name \in PresetNames : PresetLoad(name)
    \/ \E name \in PresetNames, body \in PresetBodies : PresetSave(name, body)
    \/ \E name \in PresetNames : PresetDelete(name)
    \/ PresetList

SpecPresets == InitPresets /\ [][NextPresets]_vars

(* motion presets through the handler *)

MotionBody(name, intensity) ==
    <<Str(MotionPresetChars),
      Obj([k \in {"name"} \cup (IF intensity = Undefined THEN {} ELSE {"intensity"}) |->
             IF k = "name" THEN Str(name) ELSE intensity])>>

\* what an observer can put as intensity in a JSON message
SampleIntensities ==
    {Undefined, Num(120), Num(0), Num(-200), Str(<<"2">>), Str(<<"b", "a", "d">>),
     Str(InfinityChars), Null, Bool(TRUE), EmptyObj}

MotionMessages ==
    {ControlMessage(Undefined, b[1], b[2]) :
        b \in {MotionBody(OrbitChars, i) : i \in SampleIntensities}
              \cup {MotionBody(<<"S", "t", "a", "t", "i", "c">>, Str(InfinityChars)),
                    MotionBody(<<"N", "o", "p", "e">>, Num(120)),
                    BodyCfgString, BodyJunk}}

\* the handler and the relay for observers that send motion presets and deltas
NextMotion ==
    \/ NextRelay
    \/ \E c \in Clients : Connection(c)
    \/ \E c \in Clients, m \in MotionMessages : WsMessage(c, m)

SpecMotion == InitOrder /\ [][NextMotion]_vars

(* setupQueue with a broker that refuses the queue *)

\* assertQueue rejects on an open connection: the broker refuses the
\* declaration (the queue exists with other properties) and closes the
\* channel; the connection stays open, and nothing in setupQueue closes it
AssertQueueRefused ==
    /\ sq = "asserting" /\ channelOpen /\ outages < MaxOutages
    /\ channelOpen' = FALSE
    /\ outages' = outages + 1
    /\ setupQueueCatch
    /\ out' = NoOut
    /\ UNCHANGED <<amqpConn, channel, brokerUp, connOpen, openConns, queueDeclared>>
    /\ UNCHANGED <<cfgVars, cacheVars, pollVars, apiVars, peerVars, closeVars, wsVars, histVars, mapVars>>

NextSetup == NextRelay \/ AssertQueueRefused

SpecSetup == InitRelay /\ [][NextSetup]_vars

(* the playlist poll, callback by callback *)

StreamUpdate(updated) == [type |-> "stream", updated |-> updated]

\* mutant: any other mtime than the last one is broadcast
pollNewer_Changed(mtime, last) == mtime # last

\* stat.mtimeMs > lastPlaylistMtime
pollNewer(mtime, last) == mtime > last

\* the interval fires: a callback runs to await fsp.stat(playlistPath); the
\* callbacks before it may still be waiting
PollFire(p) ==
    /\ pollTimer /\ polls[p] = [st |-> NoPoll]
    /\ polls' = [polls EXCEPT ![p] = [st |-> "stat"]]
    /\ out' = [op |-> "pollFire"]
    /\ UNCHANGED <<lastPlaylistMtime, playlist, streamed>>
    /\ UNCHANGED <<apiVars, peerVars, closeVars, relayVars, wsVars, histVars, mapVars,
                   cfgVars, cacheVars>>

\* the file system answers the stat of a callback with what it finds now
StatSettle(p) ==
    /\ polls[p] = [st |-> "stat"]
    /\ polls' = [polls EXCEPT ![p] = IF playlist = 0 THEN [st |-> "ENOENT"]
                                     ELSE [st |-> "found", mtimeMs |-> playlist]]
    /\ out' = [op |-> "stat"]
    /\ UNCHANGED <<lastPlaylistMtime, playlist, streamed>>
    /\ UNCHANGED <<apiVars, peerVars, closeVars, relayVars, wsVars, histVars, mapVars,
                   cfgVars, cacheVars>>

\* a callback goes on after its await, in whatever order the stats settled
PollResume(p) ==
    /\ polls[p].st \in {"found", "ENOENT"}
    /\ polls' = [polls EXCEPT ![p] = [st |-> NoPoll]]
    /\ IF polls[p].st = "found" /\ pollNewer(polls[p].mtimeMs, lastPlaylistMtime)
       THEN /\ lastPlaylistMtime' = polls[p].mtimeMs
            /\ streamed' = Append(streamed, polls[p].mtimeMs)
            /\ out' = [op |-> "pollResume", stat |-> polls[p], last |-> lastPlaylistMtime,
                       sends |-> broadcast(StreamUpdate(polls[p].mtimeMs))]
       ELSE /\ UNCHANGED <<lastPlaylistMtime, streamed>>
            /\ out' = [op |-> "pollResume", stat |-> polls[p], last |-> lastPlaylistMtime,
                       sends |-> NoSends]
    /\ UNCHANGED playlist
    /\ UNCHANGED <<apiVars, peerVars, closeVars, relayVars, wsVars, histVars, mapVars,
                   cfgVars, cacheVars>>

\* the encoder writes the playlist, or an older one is put back
PlaylistWrite(mtimeMs) ==
    /\ playlist # mtimeMs
    /\ playlist' = mtimeMs
    /\ out' = NoOut
    /\ UNCHANGED <<lastPlaylistMtime, polls, streamed>>
    /\ UNCHANGED <<apiVars, peerVars, closeVars, relayVars, wsVars, histVars, mapVars,
                   cfgVars, cacheVars>>

PlaylistRemove ==
    /\ playlist # 0
    /\ playlist' = 0
    /\ out' = NoOut
    /\ UNCHANGED <<lastPlaylistMtime, polls, streamed>>
    /\ UNCHANGED <<apiVars, peerVars, closeVars, relayVars, wsVars, histVars, mapVars,
                   cfgVars, cacheVars>>

InitPollOnly == InitRequest /\ InitFs /\ req = NoCall

NextPoll ==
    \/ \E c \in Clients : Connection(c)
    \/ \E p \in 1..MaxPolls : PollFire(p) \/ StatSettle(p) \/ PollResume(p)
    \/ \E mtimeMs \in 1..MaxMtime : PlaylistWrite(mtimeMs)
    \/ PlaylistRemove

SpecPoll == InitPollOnly /\ [][NextPoll]_vars

(* the broadcast hub: every source of messages to the observers *)

InitHub == Init /\ ~enableMq /\ brokerUp

NextHub ==
    \/ NextWs
    \/ PollFire(1) \/ StatSettle(1) \/ PollResume(1)
    \/ \E mtimeMs \in 1..2 : PlaylistWrite(mtimeMs)
    \/ PlaylistRemove

SpecHub == InitHub /\ [][NextHub]_vars

(* POST /api/audio/peaks, POST /api/audio/beats *)

PeaksRoute == "/api/audio/peaks"
BeatsRoute == "/api/audio/beats"

\* Math.max(8, Math.min(1024, parseInt(req.body.samples, 10) || 256))
peakCount(body) ==
    CHOOSE k \in 8..1024 :
        k = (IF OrElse(parseInt(Get(body, "samples")), Num(25600)).n \div 100 > 1024
             THEN 1024
             ELSE IF OrElse(parseInt(Get(body, "samples")), Num(25600)).n \div 100 < 8
             THEN 8
             ELSE OrElse(parseInt(Get(body, "samples")), Num(25600)).n \div 100)

\* `${audioPath}:${samples}`
peakKey(body) == JSString(Get(body, "audioPath")) \o <<":">> \o IntToChars(peakCount(body))

\* Number(((val / 255) * 2 - 1).toFixed(3)), in thousandths
peakOf(val) == (val * 4000 + 255) \div 510 - 1000

\* the peaks of the bytes of a file: data[Math.floor((i / samples) * data.length)] || 0
peaksOf(data, samples) ==
    [i \in 1..samples |->
        IF data = <<>> THEN peakOf(0)
        ELSE peakOf(data[(((i - 1) * Len(data)) \div samples) + 1])]

\* { peaks, duration }: duration = Number(((stat.size || 1) / 176400).toFixed(2)),
\* in hundredths
peaksResult(data, samples) ==
    [peaks |-> peaksOf(data, samples),
     duration |-> ((IF data = <<>> THEN 1 ELSE Len(data)) * 200 + 176400) \div 352800]

\* peakCache.has(cacheKey)
peakCacheHas(body) == peakKey(body) \in DOMAIN peakCache

\* one request is handled from start to end
AudioStep(route, body, answer, hit) ==
    /\ req' = [route |-> route, body |-> body]
    /\ res' = <<answer>>
    /\ httpPc' = "done"
    /\ out' = [op |-> "analysis", hit |-> hit]
    /\ UNCHANGED <<upstream, fsVars, pollVars, peerVars, closeVars, relayVars, wsVars,
                   histVars, mapVars, cfgVars>>

\* app.post("/api/audio/peaks")
Peaks(body) ==
    /\ IF Throws(body)
       THEN /\ AudioStep(PeaksRoute, body, Json(500, [error |-> "TypeError"]), FALSE)
            /\ UNCHANGED peakCache
       ELSE IF ~Truthy(Get(body, "audioPath"))
       THEN /\ AudioStep(PeaksRoute, body, Json(400, [error |-> "audioPath required"]),
                         FALSE)
            /\ UNCHANGED peakCache
       ELSE IF peakCacheHas(body)
       THEN /\ AudioStep(PeaksRoute, body, Json(200, peakCache[peakKey(body)]), TRUE)
            /\ UNCHANGED peakCache
       ELSE IF JSString(Get(body, "audioPath")) \notin DOMAIN audioFiles
       THEN /\ AudioStep(PeaksRoute, body, Json(500, [error |-> "ENOENT"]), FALSE)
            /\ UNCHANGED peakCache
       ELSE \E result \in {peaksResult(audioFiles[JSString(Get(body, "audioPath"))],
                                       peakCount(body))} :
               /\ AudioStep(PeaksRoute, body, Json(200, result), FALSE)
               /\ peakCache' = WriteFile(peakCache, peakKey(body), result)
    /\ UNCHANGED <<beatCache, audioFiles>>

\* parseFloat(req.body && req.body.bpm) || 120, in hundredths
beatBpm(body) == OrElse(parseFloat(Get(OrEmpty(body), "bpm")), Num(12000))

\* Math.max(1, Math.min(64, parseInt(req.body && req.body.bars, 10) || 16))
beatBars(body) ==
    CHOOSE k \in 1..64 :
        k = (IF OrElse(parseInt(Get(OrEmpty(body), "bars")), Num(1600)).n \div 100 > 64
             THEN 64
             ELSE IF OrElse(parseInt(Get(OrEmpty(body), "bars")), Num(1600)).n \div 100 < 1
             THEN 1
             ELSE OrElse(parseInt(Get(OrEmpty(body), "bars")), Num(1600)).n \div 100)

\* `${audioPath || "none"}:${bpm}:${bars}`
beatKey(body) ==
    JSString(OrElse(Get(OrEmpty(body), "audioPath"), Str(<<"n", "o", "n", "e">>)))
    \o <<":">> \o JSString(beatBpm(body)) \o <<":">> \o IntToChars(beatBars(body))

\* Number((i * (60 / bpm)).toFixed(3)) for a bpm above 0, in thousandths
beatAt(i, bpm) == (2 * i * 6000000 + bpm) \div (2 * bpm)

\* { beats, bpm }
beatsResult(body) ==
    [beats |-> [i \in 1..(4 * beatBars(body)) |-> beatAt(i - 1, beatBpm(body).n)],
     bpm |-> beatBpm(body)]

\* app.post("/api/audio/beats")
Beats(body) ==
    /\ IF beatKey(body) \in DOMAIN beatCache
       THEN /\ AudioStep(BeatsRoute, body, Json(200, beatCache[beatKey(body)]), TRUE)
            /\ UNCHANGED beatCache
       ELSE /\ AudioStep(BeatsRoute, body, Json(200, beatsResult(body)), FALSE)
            /\ beatCache' = WriteFile(beatCache, beatKey(body), beatsResult(body))
    /\ UNCHANGED <<peakCache, audioFiles>>

\* the audio file is written, or written again with other bytes
AudioWrite(file, data) ==
    /\ IF file \in DOMAIN audioFiles THEN audioFiles[file] # data ELSE TRUE
    /\ audioFiles' = WriteFile(audioFiles, file, data)
    /\ out' = NoOut
    /\ UNCHANGED <<peakCache, beatCache>>
    /\ UNCHANGED <<apiVars, pollVars, peerVars, closeVars, relayVars, wsVars, histVars,
                   mapVars, cfgVars>>

AudioRemove(file) ==
    /\ file \in DOMAIN audioFiles
    /\ audioFiles' = Unlink(audioFiles, file)
    /\ out' = NoOut
    /\ UNCHANGED <<peakCache, beatCache>>
    /\ UNCHANGED <<apiVars, pollVars, peerVars, closeVars, relayVars, wsVars, histVars,
                   mapVars, cfgVars>>

AudioPaths == {<<"a">>}
AudioData == {<<0>>, <<255, 128>>}

PeaksBody(path, samples) ==
    Obj([k \in {"audioPath", "samples"} |-> IF k = "audioPath" THEN path ELSE samples])

PeaksBodies ==
    {Undefined, PeaksBody(Undefined, Num(800))}
    \cup {PeaksBody(Str(<<"a">>), samples) :
            samples \in {Num(100), Num(800), Num(900), Str(<<"1", "0">>)}}

BeatsBodies ==
    {Undefined}
    \cup {Obj([k \in {"bpm", "bars"} |-> IF k = "bpm" THEN bpm ELSE Num(100)]) :
            bpm \in {Num(0), Num(9000), Num(6000)}}

InitAnalysis == InitRequest /\ InitFs /\ req = NoCall

NextAnalysis ==
    \/ \E body \in PeaksBodies : Peaks(body)
    \/ \E body \in BeatsBodies : Beats(body)
    \/ \E file \in AudioPaths, data \in AudioData : AudioWrite(file, data)
    \/ \E file \in AudioPaths : AudioRemove(file)

SpecAnalysis == InitAnalysis /\ [][NextAnalysis]_vars

(* the validator on its own *)

InitMap ==
    /\ InitServer /\ InitApi /\ InitPeers /\ Watching
    /\ enableMq = FALSE /\ controlToken = Str(<<>>) /\ brokerUp
    /\ trace = FALSE
    /\ mapIn \in MapInputs
    /\ mapOut = NoCall

MapControlCall ==
    /\ mapOut = NoCall
    /\ mapOut' = mapControl(mapIn.controlType, mapIn.payload)
    /\ UNCHANGED <<mapIn, cfgVars, cacheVars, pollVars, apiVars, peerVars, closeVars, relayVars, wsVars, histVars, out>>

SpecMap == InitMap /\ [][MapControlCall]_vars

-----------------------------------------------------------------------------
(* Properties *)

\* the last step handled the control message of out.msg
Handled == out.op = "message"

\* m is a control message that passes the token gate and the schema gate
PassesGates(m) ==
    /\ m # BadJson /\ ~Throws(m)
    /\ Get(m, "type") = Str(ControlChars)
    /\ Truthy(controlToken) => Get(m, "token") = controlToken
    /\ Truthy(Get(m, "controlType"))
    /\ TypeOf(Get(m, "payload")) = "object"

Validation(m) == mapControl(Get(m, "controlType"), Get(m, "payload"))

\* the relay channel is ready: an envelope given to sendToQueue is stored
RelayReady == channel = "channel" /\ channelOpen /\ queueDeclared

\* C1: a control message whose validation result has valid = false is not
\* published and not broadcast: the handler makes one send call, the error
\* "invalid controlType or payload" on the socket of the sender.
C1_InvalidNotForwarded ==
    (Handled /\ PassesGates(out.msg) /\ ~Validation(out.msg).threw
       /\ ~Validation(out.msg).valid)
    => /\ out.publish = "none"
       /\ ~out.logged
       /\ out.sends = SendTo(out.sender, ErrorMsg("invalid controlType or payload"))

\* C1 witness: an invalid message was handled while the relay was ready and
\* another observer was open
C1_Witness ==
    /\ Handled /\ PassesGates(out.msg) /\ ~Validation(out.msg).threw
    /\ ~Validation(out.msg).valid
    /\ RelayReady
    /\ \E x \in Clients : x # out.sender /\ readyState[x] = "OPEN"

\* the message is of type control and its token is missing or wrong
Unauthorized(m) ==
    /\ m # BadJson /\ ~Throws(m)
    /\ Get(m, "type") = Str(ControlChars)
    /\ Truthy(controlToken)
    /\ Get(m, "token") # controlToken

\* C2: with a token configured, a control message whose token is missing or
\* wrong gets the single answer {type: error, msg: unauthorized} on the socket of
\* its sender, no publish and no broadcast; the outputs depend on the sender
\* alone, not on controlType or payload.
C2_UnauthorizedRejected ==
    (Handled /\ Unauthorized(out.msg))
    => /\ out.publish = "none"
       /\ ~out.logged
       /\ out.sends = SendTo(out.sender, ErrorMsg("unauthorized"))

\* C2 witness: a delta that would be accepted arrived without a token while the
\* relay was ready and another observer was open
C2_Witness ==
    /\ Handled /\ Unauthorized(out.msg)
    /\ Get(out.msg, "token") = Undefined
    /\ Get(out.msg, "payload") = BodyCfg[2]
    /\ RelayReady
    /\ \E x \in Clients : x # out.sender /\ readyState[x] = "OPEN"

MapCalled == mapOut # NoCall

ExamplePayload == BodyCfgString[2]

\* C3: the payload mapControl returns for liveParam holds only allow-listed keys
\* and finite numbers, each the Number() of the raw value of that key; the
\* example {cfg: "7.5", noise_multiplier: "bad", junk: 1} yields {cfg: 7.5}.
C3_LiveParamFiltered ==
    (MapCalled /\ mapIn.controlType = Str(LiveParamChars))
    => /\ ~mapOut.threw
       /\ mapOut.payload.t = "object"
       /\ \A k \in DOMAIN mapOut.payload.f :
             /\ k \in LIVE_ALLOWED
             /\ IsFinite(mapOut.payload.f[k])
             /\ k \in DOMAIN Entries(OrEmpty(mapIn.payload))
             /\ mapOut.payload.f[k] = JSNumber(Entries(OrEmpty(mapIn.payload))[k])
       /\ mapIn.payload = ExamplePayload => mapOut.payload = One("cfg", Num(750))

\* C3 witness: the example was mapped, and dropped a key and a value
C3_Witness ==
    /\ MapCalled /\ mapIn.controlType = Str(LiveParamChars)
    /\ mapIn.payload = ExamplePayload
    /\ DOMAIN mapOut.payload.f = {"cfg"}

RECURSIVE IsSubsequence(_, _)
IsSubsequence(q, p) ==
    IF q = <<>> THEN TRUE
    ELSE IF p = <<>> THEN FALSE
    ELSE IF Head(q) = Head(p) THEN IsSubsequence(Tail(q), Tail(p))
    ELSE IsSubsequence(q, Tail(p))

\* the value of the last delta for key in a sequence of envelopes
LastDelta(envelopes, key) ==
    LET with == {i \in 1..Len(envelopes) : key \in DOMAIN envelopes[i].payload.f}
    IN  IF with = {} THEN Undefined
        ELSE envelopes[CHOOSE i \in with : \A j \in with : j <= i].payload.f[key]

\* C5: the envelopes are stored in the relay queue in the order in which the
\* handler accepted them, and for every parameter key the last accepted delta is
\* the last one stored.
C5_PublishedInAcceptOrder ==
    /\ IsSubsequence(relayQueue, accepted)
    /\ \A key \in LIVE_ALLOWED : LastDelta(relayQueue, key) = LastDelta(accepted, key)

\* C6: every envelope the handler accepted is stored in the relay queue (the
\* handler keeps no buffer: what it does not store when it runs is never stored).
C6_AcceptedIsPublished == relayQueue = accepted

\* the handler accepted the message and its envelope did not reach the queue
Dropped == Handled /\ out.publish \in {"skipped", "unroutable", "lost", "threw"}

\* C7: a write that is dropped is answered with a failure to its sender, and is
\* not reported to it as an accepted event.
C7_NoSilentDrop ==
    Dropped
    => /\ \E i \in 1..Len(out.sends[out.sender]) :
             out.sends[out.sender][i].type = "error"
       /\ \A i \in 1..Len(out.sends[out.sender]) :
             out.sends[out.sender][i].type # "event"

\* a step in which an awaited promise of setupQueue rejects
SetupFails ==
    /\ sq \in {"connecting", "creating", "asserting"}
    /\ sq' \notin {sq, "creating", "asserting", "connected"}

\* C8: a failed set-up attempt schedules the next one with a delay of 2000 ms,
\* every scheduled attempt starts, and if the broker stays reachable from some
\* time on, the set-up completes.
C8_RetryUntilConnected ==
    /\ [][SetupFails => (sq' = "waiting" /\ retryDelay' = RetryDelayMs)]_vars
    /\ (sq = "waiting") ~> (sq = "connecting")
    /\ (<>[]brokerUp) => <>(sq = "connected" /\ channel = "channel")

\* C8 witness: an attempt has failed and the retry is pending, the broker is back
C8_Witness == sq = "waiting" /\ retryDelay = RetryDelayMs /\ brokerUp

\* C9: once an established connection is lost, the adapter returns to the
\* disconnected state and starts a new set-up attempt.
C9_ReconnectAfterLoss ==
    (sq = "connected" /\ ~connOpen) ~> (sq # "connected" /\ channel = "null")

\* the last step called broadcast
Broadcasted ==
    \/ (Handled /\ out.publish \in {"skipped", "unroutable", "lost", "stored"})
    \/ (out.op = "frame" /\ Truthy(out.file) /\ StartsWithFrame(out.file.s))

\* C10: broadcast makes one send call, of the same event, on every socket whose
\* readyState is OPEN, and none on any other socket.
C10_BroadcastToOpenOnly ==
    Broadcasted
    => /\ \A x \in Clients :
             Len(out.sends[x]) = IF readyState[x] = "OPEN" THEN 1 ELSE 0
       /\ \A x, y \in Clients :
             (out.sends[x] # <<>> /\ out.sends[y] # <<>>) => out.sends[x] = out.sends[y]
       /\ \A x \in Clients :
             out.sends[x] # <<>> => out.sends[x][1].type \in {"event", "frame"}

\* C10 witness: a broadcast while one observer was open and another was closing
C10_Witness ==
    /\ Broadcasted
    /\ \E x, y \in clients : readyState[x] = "OPEN" /\ readyState[y] = "CLOSING"

\* the last step was a poll callback that called broadcast
PollBroadcast == out.op = "poll" /\ out.newer

\* close() has returned
Closed == closePc = "done"

\* C11: once close() has returned, no timer of the server is pending (the poll
\* interval, a relay-connect retry), no relay connection is open or being opened,
\* and no step broadcasts.
C11_NoTimerAfterClose ==
    Closed
    => /\ ~pollTimer
       /\ sq # "waiting" /\ retryDelay = 0
       /\ sq \notin {"connecting", "creating", "asserting"}
       /\ ~connOpen
       /\ ~(Broadcasted \/ PollBroadcast)

\* close() has ended: it returned, or it rejected
CloseEnded == closePc \in {"done", "rejected"}

\* C12: whenever close() ends, it has made every release call: the timer, the
\* frame watcher, the observers, both servers, and the channel and connection it holds.
C12_AllReleaseSteps ==
    CloseEnded
    => /\ {"pollTimer", "clients", "wss", "server"} \subseteq closeCalls
       /\ frameWatcher # "undefined" => "frameWatcher" \in closeCalls
       /\ channel # "null" => "channel" \in closeCalls
       /\ amqpConn # "null" => "amqpConn" \in closeCalls

\* C13: every value of the liveParam output lies within the range of its key.
C13_LiveParamInRange ==
    (MapCalled /\ mapIn.controlType = Str(LiveParamChars) /\ ~mapOut.threw)
    => \A k \in DOMAIN mapOut.payload.f \cap DOMAIN ParamRange :
          /\ mapOut.payload.f[k].t = "number"
          /\ ParamRange[k][1] <= mapOut.payload.f[k].n
          /\ mapOut.payload.f[k].n <= ParamRange[k][2]

\* C14: mapControl returns, for every controlType and payload, a result that
\* carries a valid flag; it never throws.
C14_MapControlNeverThrows ==
    MapCalled => (~mapOut.threw /\ mapOut.valid \in BOOLEAN)

\* the field that tells what a pass-through control is about
Discriminator(controlType) ==
    IF controlType = Str(ControlnetChars) THEN "slot" ELSE "name"

\* the last step handled a motionPreset, paramSource or controlnet message that
\* passed the token and schema gates and carries its discriminator field
PassThroughKind ==
    /\ Handled /\ PassesGates(out.msg)
    /\ Get(out.msg, "controlType")
          \in {Str(MotionPresetChars), Str(ParamSourceChars), Str(ControlnetChars)}
    /\ Truthy(Get(Get(out.msg, "payload"), Discriminator(Get(out.msg, "controlType"))))

\* C15: a motionPreset, paramSource or controlnet message with its discriminator
\* is mapped to valid = true with its payload unchanged, and the handler forwards it.
C15_PassThroughKinds ==
    PassThroughKind
    => /\ Validation(out.msg).valid
       /\ Validation(out.msg).payload = Get(out.msg, "payload")
       /\ out.publish # "none"
       /\ errorFor("invalid")[1] \notin
             {out.sends[out.sender][i] : i \in 1..Len(out.sends[out.sender])}

\* the sends the last step made on the socket of its sender
SenderSends == {out.sends[out.sender][i] : i \in 1..Len(out.sends[out.sender])}

\* the last step handled a message of type "control" and did not forward it
ControlNotForwarded ==
    /\ Handled
    /\ out.msg # BadJson /\ ~Throws(out.msg)
    /\ Get(out.msg, "type") = Str(ControlChars)
    /\ out.publish = "none"

\* C16: a control message the handler does not forward is answered with an error
\* message on the socket of its sender, in the same run of the handler.
C16_BadControlAnswered ==
    ControlNotForwarded => \E e \in SenderSends : e.type = "error"

\* C17: when the envelope does not reach the queue (no channel, or the publish
\* call fails), no error message is sent to the sender of the control message.
C17_RelayFailureNotSurfaced ==
    Dropped => \A e \in SenderSends : e.type # "error"

\* C17 witness: sendToQueue threw on a dead channel while the sender was open
C17_Witness ==
    Dropped /\ out.publish = "threw" /\ readyState[out.sender] = "OPEN"

\* a step in which the relay connection becomes established, or is lost
RelayStateChange ==
    \/ (sq # "connected" /\ sq' = "connected")
    \/ (connOpen /\ ~connOpen')

\* a step of the retry loop that changes no connection state: a failed attempt,
\* or the start of the next one
RetryAttempt == SetupFails \/ (sq = "waiting" /\ sq' = "connecting")

\* C18: a step that changes the state of the relay connection sends a
\* notification to every open observer; a retry attempt sends nothing.
C18_RelayStateBroadcast ==
    [][/\ RelayStateChange
          => \A x \in clients' :
                readyState'[x] = "OPEN"
                => ("sends" \in DOMAIN out' /\ out'.sends[x] # <<>>)
       /\ (RetryAttempt /\ ~RelayStateChange) => out' = NoOut]_vars

\* C19: every write the engine applies for a key with a flag dependency finds that
\* flag enabled on the connection it arrives on.
C19_FlagsBeforeWrites ==
    (lastWrite # NoWrite /\ lastWrite.key \in DOMAIN PARAM_FLAGS)
    => PARAM_FLAGS[lastWrite.key] \in lastWrite.flags

\* C19 witness: after a reconnect, a write queued during the outage was applied
C19_Witness ==
    /\ reconnects > 0 /\ bridgePc = "ready"
    /\ out = [op |-> "bridge", result |-> "applied"]
    /\ lastWrite.key = "fov"

\* a step that calls addMacro with six macros, or addLfo with eight LFOs
AddAtCap ==
    \/ (out'.op = "addMacro" /\ Len(macrosRack) = MacroCap)
    \/ (out'.op = "addLfo" /\ Len(lfos) = LfoCap)

\* C20: the rack of macros never holds more than six entries and the rack of LFOs
\* never more than eight, and an add at the cap changes neither rack.
C20_RackCaps ==
    /\ [](Len(macrosRack) <= MacroCap /\ Len(lfos) <= LfoCap)
    /\ [][AddAtCap => (macrosRack' = macrosRack /\ lfos' = lfos)]_vars

\* C20 witness: addMacro was ignored with six macros, the five of the test first
C20_Witness ==
    /\ out = [op |-> "addMacro", added |-> FALSE]
    /\ Len(macrosRack) = MacroCap
    /\ SubSeq(macrosRack, 1, 5) = TestRack
    /\ Len(lfos) = LfoCap

\* C21: the macro has fired once for every subdivision window that has elapsed,
\* whatever the number of ticks in a window, and a tick inside the window of the
\* last trigger does not fire it.
C21_OncePerSubdivision ==
    beat.running
    => /\ beat.fired = beat.elapsed \div WindowMs(beat.bpm, beat.speedDivision)
       /\ beat.lastWindow = WindowOf(beat, beat.elapsed)
       /\ (out.op = "beat" /\ out.fired)
             => beat.elapsed % WindowMs(beat.bpm, beat.speedDivision) < 3 * TickMs

\* C21 witness: a quarter-note macro at 120 BPM has fired 4 times after 2 s
C21_Witness ==
    /\ beat.running /\ beat.bpm = 120 /\ beat.speedDivision = "quarter"
    /\ beat.elapsed = 2000 /\ beat.fired = 4
    /\ out = [op |-> "beat", fired |-> TRUE]


\* C22: for every shape, base, depth, rate and step the generator accepts, the
\* sample lies between base - depth and base + depth
C22_LfoBounded ==
    (req # NoCall /\ req.route = LfoRoute /\ httpPc = "done") =>
        LET c == lfoSettings(req.body)
            samples == res[1].body.samples
        IN  \A j \in 1..Len(samples) :
                /\ 10 * (c.base - c.depth) <= samples[j]
                /\ samples[j] <= 10 * (c.base + c.depth)

\* C22 for a depth that is not negative
C22_LfoBoundedPositiveDepth ==
    (req # NoCall /\ req.route = LfoRoute /\ httpPc = "done"
        /\ lfoSettings(req.body).depth >= 0) => C22_LfoBounded


\* a field of the raw payload survives the filter of its controlType
FieldSurvives(controlType, payload) ==
    LET e == Entries(OrEmpty(payload))
        sched == Get(payload, "prompt_schedule")
        sf == Get(payload, "start_frame")
    IN  CASE controlType = Str(LiveParamChars) ->
                \E k \in DOMAIN e : k \in LIVE_ALLOWED /\ IsFinite(JSNumber(e[k]))
          [] controlType = Str(PromptsChars) ->
                \/ \E k \in DOMAIN e :
                      k \in PROMPT_FIELDS /\ TypeOf(e[k]) \in {"boolean", "number", "string"}
                \/ /\ sched.t = "array"
                   /\ \E i \in 1..Len(sched.a) :
                         /\ IsFinite(JSNumber(Get(sched.a[i], "t")))
                         /\ IsFinite(JSNumber(Get(sched.a[i], "mix")))
          [] controlType = Str(TransportChars) ->
                \/ Truthy(Get(payload, "action"))
                \/ sf.t \notin {"null", "undefined"} /\ IsFinite(JSNumber(sf))

\* C23: for liveParam, prompts and transport the result is valid if and only if
\* a field of the raw payload (or an entry of prompt_schedule) survives the
\* filter; the payload of a transport result holds nothing but a lower-cased
\* action and a finite start_frame.
C23_ValidIffFieldSurvives ==
    (MapCalled /\ ~mapOut.threw
        /\ mapIn.controlType \in {Str(LiveParamChars), Str(PromptsChars), Str(TransportChars)})
    => /\ mapOut.valid <=> FieldSurvives(mapIn.controlType, mapIn.payload)
       /\ mapIn.controlType = Str(TransportChars)
             => \A k \in DOMAIN mapOut.payload.f :
                   \/ /\ k = "action" /\ mapOut.payload.f[k].t = "string"
                      /\ mapOut.payload.f[k].s = ToLowerCase(mapOut.payload.f[k].s)
                   \/ k = "start_frame" /\ IsFinite(mapOut.payload.f[k])

\* C23 without the prompts whose prompt_schedule is an array
C23_ValidIffFieldSurvivesNoSchedule ==
    (MapCalled /\ Get(mapIn.payload, "prompt_schedule").t # "array")
    => C23_ValidIffFieldSurvives


\* the entry of a raw prompt_schedule has a finite time offset and a finite mix
FiniteSlot(slot) ==
    IsFinite(JSNumber(Get(slot, "t"))) /\ IsFinite(JSNumber(Get(slot, "mix")))

Readable(m) == m # BadJson /\ ~Throws(m)

\* m is a control message without controlType or whose payload is no object
\* (as typeof tells it)
BadSchema(m) ==
    /\ Readable(m) /\ Get(m, "type") = Str(ControlChars)
    /\ \/ Get(m, "controlType") = Undefined
       \/ TypeOf(Get(m, "payload")) # "object"

\* C25: a message whose type is not control gets no response, no publish and no
\* broadcast; a control message without controlType or with a payload that is
\* no object gets the single answer "invalid schema" on the socket of its
\* sender, no publish and no broadcast, unless its token is refused: then the
\* answer is "unauthorized" (the token is tested first).
C25_TypeTokenSchemaGates ==
    Handled
    => /\ (Readable(out.msg) /\ Get(out.msg, "type") # Str(ControlChars))
             => (out.sends = NoSends /\ out.publish = "none" /\ ~out.logged)
       /\ (BadSchema(out.msg) /\ ~Unauthorized(out.msg))
             => /\ out.sends = SendTo(out.sender, ErrorMsg("invalid schema"))
                /\ out.publish = "none"
       /\ (BadSchema(out.msg) /\ Unauthorized(out.msg))
             => /\ out.sends = SendTo(out.sender, ErrorMsg("unauthorized"))
                /\ out.publish = "none"

\* C25 witness: with a token configured, a control message with a wrong token
\* and a string for payload was refused while the relay was ready and another
\* observer was open
C25_Witness ==
    /\ Handled /\ BadSchema(out.msg) /\ Unauthorized(out.msg)
    /\ Get(out.msg, "token") = Str(<<"w">>)
    /\ Get(out.msg, "payload").t = "string"
    /\ out.sends = SendTo(out.sender, ErrorMsg("unauthorized"))
    /\ RelayReady
    /\ \E x \in Clients : x # out.sender /\ readyState[x] = "OPEN"

\* C25, second case: a control message without controlType was answered
C25_WitnessSchema ==
    /\ Handled /\ BadSchema(out.msg) /\ ~Unauthorized(out.msg)
    /\ Truthy(controlToken) /\ Get(out.msg, "controlType") = Undefined
    /\ out.sends = SendTo(out.sender, ErrorMsg("invalid schema"))
    /\ RelayReady

\* C25, first case: a message of another type was ignored
C25_WitnessIgnored ==
    /\ Handled /\ Readable(out.msg) /\ Get(out.msg, "type") = Str(<<"p", "i", "n", "g">>)
    /\ out.sends = NoSends /\ RelayReady
    /\ \E x \in Clients : readyState[x] = "OPEN"


\* the last step was an event of the probe of GET /api/mediator/state
ProbeEvent(event) == out.op = "probe" /\ out.event = event

\* C26: GET /api/mediator/state answers 503 when the probe does not start or
\* closes with a code other than 0, 500 when it closes with code 0 and output
\* that is no JSON, and the parsed output otherwise; the probe is always given
\* the mediator host and port.
C26_MediatorStateAnswers ==
    /\ out.op = "probe"
          => \E i \in 1..(Len(out.args) - 3) :
                /\ out.args[i] = Str(<<"-", "-", "h", "o", "s", "t">>)
                /\ out.args[i + 1] = mediatorHost
                /\ out.args[i + 2] = Str(<<"-", "-", "p", "o", "r", "t">>)
                /\ out.args[i + 3] = mediatorPort
    /\ (ProbeEvent("nochild") \/ ProbeEvent("error")) => res[1].status = 503
    /\ ProbeEvent("close")
          => LET text == IF out.stdout = "" THEN "{}" ELSE out.stdout
             IN  res[1] = IF out.after = "errored" \/ out.code # Num(0)
                          THEN Json(503, [error |-> "mediator probe failed"])
                          ELSE IF JSONParse(text) = BadJson
                          THEN Json(500, [error |-> "invalid mediator response"])
                          ELSE Json(200, JSONParse(text))

\* C26 for the probes the spawner returned a child for
C26_MediatorStateAnswersOfChild == ProbeEvent("nochild") \/ C26_MediatorStateAnswers

\* the handler of GET /api/mediator/state throws nothing out of a listener
C26_NoUncaughtThrow == httpPc # "uncaught"


\* the limit the request asks for: the whole number in limit, brought into
\* 1..50, or 12 when limit holds no number
AskedLimit(query) ==
    LET n == parseInt(Get(query, "limit"))
    IN  IF n.t # "number" THEN 12
        ELSE IF n.n > 5000 THEN 50 ELSE IF n.n < 100 THEN 1 ELSE n.n \div 100

\* the frames handler has answered
FramesAnswered == req # NoCall /\ req.route = FramesRoute /\ httpPc = "done"

\* C27: GET /api/frames returns at most limit items, limit brought into 1..50
\* and 12 by default; the items are regular files with the name of an image,
\* newest first, none older than a file left out; a missing directory gives
\* the empty list.
C27_FramesListing ==
    FramesAnswered
    => /\ framesDir.err = "ENOENT" => res = <<Json(200, [items |-> <<>>])>>
       /\ framesDir.err = "none"
             => LET items == res[1].body.items
                    images == {i \in 1..Len(framesDir.entries) :
                                  /\ framesDir.entries[i].isFile
                                  /\ isImageName(framesDir.entries[i].name)}
                IN  /\ res[1].status = 200
                    /\ Len(items) <= AskedLimit(req.query)
                    /\ \A j \in 1..Len(items) :
                          \E i \in images :
                             /\ framesDir.entries[i].name = items[j].name
                             /\ framesDir.entries[i].mtime = items[j].mtime
                    /\ \A j \in 1..(Len(items) - 1) : items[j].mtime >= items[j + 1].mtime
                    /\ Len(items) < Cardinality(images)
                          => \A i \in images, j \in 1..Len(items) :
                                (\A k \in 1..Len(items) :
                                    items[k].name # framesDir.entries[i].name)
                                => framesDir.entries[i].mtime <= items[j].mtime

\* C27 for the requests whose limit is not 0
C27_FramesListingNonZero ==
    (FramesAnswered /\ parseInt(Get(req.query, "limit")) # Num(0)) => C27_FramesListing


\* the last step answered a listing request
ProxyAnswered == Proxying /\ out.op = "answer"

\* C28: the listing handlers answer once, with status 200: the upstream list
\* when the upstream call succeeded within 2 s, the static list otherwise; once
\* 2 s have passed without an answer, the time-out is still to come or has come.
C28_ProxyAnswersOnce ==
    Proxying
    => /\ Len(res) <= 1
       /\ httpPc = "done" <=> Len(res) = 1
       /\ ProxyAnswered
             => /\ res[1].status = 200
                /\ res[1].body.source = "sd-forge" => (out.event = "list" /\ ~out.late)
                /\ res[1].body.source # "sd-forge"
                      => res[1].body = placeholderBody(req.route)
       /\ (upstream.elapsed /\ httpPc # "done") => (upstream.timer \/ upstream.aborted)

\* C28 with the 2 s counted up to the head of the upstream answer only: the
\* answer is the upstream list exactly when the head came before the abort with
\* an OK status and the body could be read; the static list otherwise.
C28_ProxyAnswersOnceHeadInTime ==
    Proxying
    => /\ Len(res) <= 1
       /\ httpPc = "done" <=> Len(res) = 1
       /\ ProxyAnswered
             => /\ res[1].status = 200
                /\ res[1].body.source = "sd-forge" <=> out.event = "list"
                /\ res[1].body.source # "sd-forge"
                      => res[1].body = placeholderBody(req.route)
                /\ out.event = "timeout" => out.late


\* the modulator was started for the request
AudioMapSpawned == out.op = "audioMap" /\ out.event = "spawn"

\* the intensity of a band of the request: 1 when the band gives none
IntensityOf(band) ==
    IF Get(band, "intensity").t \in {"null", "undefined"} THEN Num(100)
    ELSE JSNumber(Get(band, "intensity"))

\* C29: the mappings of the request, when there are any, are what the
\* modulator is given; otherwise its bands, when there are any; otherwise the
\* three default bands. A band of intensity i is given as one mapping with
\* out_min = -|i| and out_max = |i|, the bands in their order.
C29_AudioMapPrecedence ==
    AudioMapSpawned
    => LET body == req.body
           mappings == Get(body, "mappings")
           bands == Get(body, "bands")
           given == out.args.mapping
       IN  IF mappings.t = "array" /\ mappings.a # <<>>
           THEN /\ Len(given) = Len(mappings.a)
                /\ \A i \in 1..Len(given) :
                      Get(given[i], "param") = Get(mappings.a[i], "param")
           ELSE IF bands.t = "array" /\ bands.a # <<>>
           THEN /\ Len(given) = Len(bands.a)
                /\ \A i \in 1..Len(given) :
                      /\ Get(given[i], "param") = Get(bands.a[i], "param")
                      /\ IsFinite(IntensityOf(bands.a[i]))
                            => /\ Get(given[i], "out_max") = Abs(IntensityOf(bands.a[i]))
                               /\ Get(given[i], "out_min")
                                     = Neg(Abs(IntensityOf(bands.a[i])))
           ELSE /\ Len(given) = 3
                /\ \A i \in 1..3 :
                      /\ Get(given[i], "param") = Get(baseBands[i], "param")
                      /\ Get(given[i], "out_min") = Num(-100)
                      /\ Get(given[i], "out_max") = Num(100)

\* C29 for the bands whose intensity is not 0
C29_AudioMapPrecedenceNonZero ==
    (AudioMapSpawned
        /\ \A i \in 1..Len(userBands(req.body)) :
              Get(userBands(req.body)[i], "intensity") # Num(0))
    => C29_AudioMapPrecedence


\* the last step handled a preset request of the method, and did not refuse
\* its name or its data
PresetDone(method) ==
    /\ req # NoCall /\ req.route = "/api/presets" /\ req.method = method
    /\ res[1].status # 400

\* C30: a load returns the body last saved under its name, and 404 when the
\* name was never saved or was deleted since; the delete of a name that is not
\* stored returns 404; the list is the set of the names that are stored.
C30_PresetStore ==
    /\ PresetDone("GET")
          => res[1] = IF out.was.saved
                      THEN Json(200, [name |-> req.name, preset |-> out.was.body])
                      ELSE Json(404, [error |-> "preset not found"])
    /\ (PresetDone("DELETE") /\ ~out.was.saved) => res[1].status = 404
    /\ PresetDone("LIST")
          => res[1].body.presets = {n \in DOMAIN presetLog : presetLog[n].saved}

\* the names requested so far are made of letters, digits, _ and - only
PlainNames ==
    /\ \A n \in DOMAIN presetLog : sanitizeName(n) = n
    /\ req # NoCall => sanitizeName(req.name) = req.name

\* C30 as long as every name is made of letters, digits, _ and -
C30_PresetStorePlainNames == PlainNames => C30_PresetStore


\* a name of letters and digits was saved, and then loaded with its body
C30_Witness ==
    /\ PlainNames /\ PresetDone("GET") /\ out.was.saved
    /\ res[1] = Json(200, [name |-> req.name, preset |-> out.was.body])

\* a name of letters and digits was saved, deleted, and then not found
C30_WitnessDeleted ==
    /\ PlainNames /\ PresetDone("GET") /\ ~out.was.saved
    /\ req.name \in DOMAIN presetLog /\ res[1].status = 404


\* the last step handled a request of /api/presets/:name
PresetNamed ==
    req # NoCall /\ req.route = "/api/presets" /\ req.method \in {"GET", "POST", "DELETE"}

\* the names of the files of the directory are made of letters, digits, _, -
\* and the extension
PlainFile(file) ==
    /\ EndsWith(file, JsonExt) /\ Len(file) > Len(JsonExt)
    /\ \A i \in 1..(Len(file) - Len(JsonExt)) : IsNameChar(file[i])

\* C31: the file a preset save, load or delete touches lies directly inside
\* the presets directory and is named by the characters of [a-zA-Z0-9_-] of
\* the requested name; a name without such a character is answered 400 and no
\* file is touched.
C31_PresetPathInside ==
    /\ PresetNamed
          => /\ \A path \in out.touched :
                   /\ Len(path) = Len(PresetsRoot) + 1
                   /\ SubSeq(path, 1, Len(PresetsRoot)) = PresetsRoot
                   /\ PlainFile(path[Len(path)])
                   /\ path[Len(path)] = SelectSeq(req.name, IsNameChar) \o JsonExt
             /\ (\A i \in 1..Len(req.name) : ~IsNameChar(req.name[i]))
                   => /\ res[1] = Json(400, [error |-> "invalid preset name"])
                      /\ out.touched = {}
    /\ \A file \in DOMAIN presetsDir : PlainFile(file)

\* a name that steps out of the directory was given, and a file was touched
C31_Witness ==
    /\ PresetNamed /\ out.touched # {}
    /\ \E i \in 1..Len(req.name) : req.name[i] = "/"
    /\ res[1].status = 200

\* a name without a character of [a-zA-Z0-9_-] was refused
C31_WitnessRefused ==
    /\ PresetNamed /\ req.name = <<".", ".", "/", ".", ".">>
    /\ res[1].status = 400 /\ presetsDir # <<>>

\* C31, the step: a request whose name has no character of [a-zA-Z0-9_-]
\* leaves the files as they are
C31_RefusedKeepsFiles ==
    [][(req' # NoCall /\ req'.route = "/api/presets" /\ req'.method # "LIST"
          /\ sanitizeName(req'.name) = <<>>) => presetsDir' = presetsDir]_vars


\* an envelope of controlType liveParam holds registry keys and finite numbers
LiveClean(envelope) ==
    envelope.controlType = Str(LiveParamChars)
    => /\ envelope.payload.t = "object"
       /\ \A k \in DOMAIN envelope.payload.f :
             k \in LIVE_ALLOWED /\ IsFinite(envelope.payload.f[k])

\* C32: every liveParam envelope that is stored in the relay queue or broadcast
\* to the observers, the one made from a motion preset included, holds only
\* keys of the registry and finite numbers.
C32_LiveParamEnvelopesClean ==
    /\ \A i \in 1..Len(relayQueue) : LiveClean(relayQueue[i])
    /\ "sends" \in DOMAIN out
          => \A x \in Clients : \A i \in 1..Len(out.sends[x]) :
                out.sends[x][i].type = "event" => LiveClean(out.sends[x][i].payload)

\* the intensity of the last message is absent or a finite number
FiniteIntensity ==
    (out.op = "message" /\ out.msg.t = "object" /\ Get(out.msg, "payload").t = "object")
    => LET intensity == Get(Get(out.msg, "payload"), "intensity")
       IN  ~Truthy(intensity) \/ IsFinite(JSNumber(intensity))

\* C32 for the envelopes themselves, when every intensity sent so far was a
\* finite number or absent
C32_LiveParamCleanFiniteIntensity ==
    (FiniteIntensity /\ \A i \in 1..Len(accepted) : LiveClean(accepted[i]))
    => C32_LiveParamEnvelopesClean


\* the last step handled a control message that passed every gate
Accepted == out.op = "message" /\ handlerGate(out.msg) = "forward"

\* the events the last step sent to observer x
EventsTo(x) == SelectSeq(out.sends[x], LAMBDA sent : sent.type = "event")

\* the last step gave its envelope to channel.sendToQueue
HandedToRelay == out.publish \in {"stored", "unroutable", "lost", "threw"}

\* C33: an accepted control message is broadcast as exactly one event, whose
\* payload is the envelope published for it; a message that is not accepted is
\* no event; with the relay enabled a message is an event exactly when it was
\* handed to the relay channel.
C33_EventIffPublished ==
    out.op = "message"
    => /\ Accepted
             => /\ \A x \in broadcastTargets : Len(EventsTo(x)) = 1
                /\ out.publish = "stored"
                      => \A x \in broadcastTargets :
                            EventsTo(x)[1].payload = relayQueue[Len(relayQueue)]
       /\ ~Accepted => \A x \in Clients : EventsTo(x) = <<>>
       /\ enableMq => ((\E x \in Clients : EventsTo(x) # <<>>) <=> HandedToRelay)

\* C33 while the channel is set and its connection is open
C33_EventIffPublishedChannelUp ==
    (out.op = "message" /\ channel # "null" /\ channelOpen) => C33_EventIffPublished


\* C34: channel is set only when connect, createChannel and assertQueue have
\* all succeeded, and at most one relay connection is open at any time.
C34_ChannelAfterSetup ==
    /\ channel # "null" => sq = "connected"
    /\ openConns <= 1

\* what holds of the set-up: channel is set only after connect and
\* createChannel of one attempt have succeeded, and amqpConn holds the
\* connection of the last successful connect
C34_ChannelAfterCreate ==
    /\ channel # "null" => amqpConn # "null"
    /\ queueDeclared => channel # "null"
    /\ connOpen => openConns >= 1

\* the first part alone fails too: channel is set while the queue is not yet
\* declared
C34_ChannelOnlyWhenDeclared == channel # "null" => sq = "connected"

\* the second part alone fails too: two relay connections are open
C34_OneConnection == openConns <= 1


\* the child of the request has emitted error or close
ChildEmitted == httpPc \in {"errored", "done", "uncaught"} /\ out.op = "audioMap"
                   /\ out.event \in {"error", "close"}

\* C35: a request of /api/audio-map whose child emits error, close, or error
\* and then close is answered exactly once: one response is written and no
\* listener sends a second one.
C35_AnsweredExactlyOnce ==
    /\ Len(res) <= 1
    /\ ChildEmitted => Len(res) = 1 /\ httpPc # "uncaught"

\* what holds: one response is written, the first; the second res.json of
\* the request fails
C35_OneResponseWritten ==
    /\ Len(res) <= 1
    /\ ChildEmitted => Len(res) = 1
    /\ httpPc = "uncaught" => out.event = "close"


\* what the last poll callback sent to the observers
StreamSent == {out.sends[x] : x \in Clients} \ {<<>>}

\* C36: the poll broadcasts a stream event only for an mtime above the last
\* one broadcast, so the `updated` values broadcast are strictly increasing,
\* whatever the order in which overlapping callbacks go on; a missing playlist
\* is no event.
C36_StreamStrictlyIncreasing ==
    /\ \A i \in 1..(Len(streamed) - 1) : streamed[i] < streamed[i + 1]
    /\ streamed # <<>> => lastPlaylistMtime = streamed[Len(streamed)]
    /\ out.op = "pollResume"
          => /\ StreamSent \subseteq {<<StreamUpdate(lastPlaylistMtime)>>}
             /\ StreamSent # {}
                   => /\ out.stat.st = "found"
                      /\ out.stat.mtimeMs > out.last
                      /\ out.stat.mtimeMs = lastPlaylistMtime
             /\ (out.stat.st = "ENOENT" \/ out.stat.mtimeMs <= out.last)
                   => StreamSent = {} /\ lastPlaylistMtime = out.last

\* callbacks overlapped and went on out of order: the one that found the older
\* playlist went on last, and sent nothing to the observer that is connected
C36_Witness ==
    /\ out.op = "pollResume" /\ out.stat.st = "found"
    /\ out.stat.mtimeMs < out.last /\ playlist = out.last
    /\ Len(streamed) >= 2 /\ clients # {} /\ StreamSent = {}
    /\ \E q \in 1..MaxPolls : polls[q].st # NoPoll

\* a newer playlist was broadcast to an observer
C36_WitnessBroadcast ==
    /\ out.op = "pollResume" /\ StreamSent # {} /\ Len(streamed) >= 2


\* the send calls of a step, observer by observer
SendsOf(o) == IF "sends" \in DOMAIN o THEN o.sends ELSE NoSends

\* C37: an observer is sent hello, and nothing else, in the step that makes it
\* a client of the server; every other message (event, stream, frame, error)
\* goes to observers that are clients already, and is never a hello: each
\* connection gets exactly one hello, before anything else.
C37_HelloOnceAndFirst ==
    [][\A c \in Clients :
          IF c \notin clients /\ c \in clients'
          THEN /\ Len(SendsOf(out')[c]) = 1
               /\ SendsOf(out')[c][1].type = "hello"
          ELSE /\ \A i \in 1..Len(SendsOf(out')[c]) :
                     SendsOf(out')[c][i].type \in {"event", "stream", "frame", "error"}
               /\ SendsOf(out')[c] # <<>> => c \in clients]_vars

\* an observer that connected earlier is sent an event, a stream update, a
\* frame or an error
C37_Witness ==
    /\ out.op \in {"message", "frame", "pollResume"}
    /\ \E c \in clients : out.sends[c] # <<>>

\* the four kinds of message are sent
C37_WitnessStream == out.op = "pollResume" /\ \E c \in clients : out.sends[c] # <<>>
C37_WitnessError ==
    out.op = "message" /\ \E c \in clients :
        out.sends[c] # <<>> /\ out.sends[c][1].type = "error"


CacheLimit == 2

\* the last step answered an analysis request of the route with a result
AnalysisDone(route) ==
    req # NoCall /\ req.route = route /\ out.op = "analysis" /\ res[1].status = 200

\* C38: the peaks cache and the beats cache hold at most CacheLimit results,
\* and the peaks a request is given are those of the audio file as it is.
C38_CachesBoundedAndFresh ==
    /\ Cardinality(DOMAIN peakCache) <= CacheLimit
    /\ Cardinality(DOMAIN beatCache) <= CacheLimit
    /\ AnalysisDone(PeaksRoute)
          => /\ JSString(Get(req.body, "audioPath")) \in DOMAIN audioFiles
             /\ res[1].body = peaksResult(audioFiles[JSString(Get(req.body, "audioPath"))],
                                          peakCount(req.body))

\* the second half alone: the peaks a request is given are those of the file
C38_PeaksFresh ==
    AnalysisDone(PeaksRoute)
       => /\ JSString(Get(req.body, "audioPath")) \in DOMAIN audioFiles
          /\ res[1].body = peaksResult(audioFiles[JSString(Get(req.body, "audioPath"))],
                                       peakCount(req.body))

\* the first half alone: the caches hold at most CacheLimit results
C38_CachesBounded ==
    Cardinality(DOMAIN peakCache) <= CacheLimit
    /\ Cardinality(DOMAIN beatCache) <= CacheLimit

\* what holds: a result that is not taken from the cache is that of the file
\* as it is, and a cached result is the one stored under the key
C38_FreshOnMiss ==
    /\ (AnalysisDone(PeaksRoute) /\ ~out.hit)
          => res[1].body = peaksResult(audioFiles[JSString(Get(req.body, "audioPath"))],
                                       peakCount(req.body))
    /\ AnalysisDone(PeaksRoute) => res[1].body = peakCache[peakKey(req.body)]
    /\ AnalysisDone(BeatsRoute) => res[1].body = beatsResult(req.body)

====
